---- MODULE Spec2Model ----
(***************************************************************************)
(* The real-time conversational-agent layer of ai-consulting-registration: *)
(* the socket handlers of src/src/socket.ts, the interview agent loop of   *)
(* src/src/agent/agent.ts and the intake agent loop and session registry   *)
(* of src/src/agent/intake-agent.ts.                                       *)
(*                                                                         *)
(* Every await of the code is a step boundary: the code between two awaits *)
(* runs without interleaving on the single-threaded event loop, so it is   *)
(* one action here.  Text contents are abstracted to who produced them: a  *)
(* history entry carries the turn that appended it, a document section     *)
(* carries the tool call <<turn, iteration, index>> that wrote it.         *)
(* Times are in minutes.                                                   *)
(***************************************************************************)
EXTENDS Integers, Sequences, FiniteSets, TLC

\* ------------------------------------------------------------------ bounds
MaxTurns == 2        \* user messages handled in one behaviour of SpecTurns
MaxLoopTurns == 2    \* interview messages handled in one behaviour of SpecLoop
MaxIntakeTurns == 1  \* intake messages handled in one behaviour of SpecLoop, SpecSweep
MaxSeqTurns == 11    \* user messages handled in one behaviour of SpecQuota
MaxCalls == 2        \* tool-call slots in one model response of SpecLoop
MaxTurnCalls == 1    \* tool-call slots in one model response of SpecTurns
MaxStarts == 5       \* intakeStart events in one behaviour
MaxTicks == 3        \* clock advances in one behaviour
MaxChunks == 3       \* audio chunks in one behaviour
MaxStops == 2           \* stop signals in a behaviour
MaxRichIterations == 1  \* iterations of a turn of SpecDocs that may call tools
MaxPatches == 1         \* PATCH requests in one behaviour of SpecDocs
MaxSessionStarts == 2   \* intakeStart events in one behaviour of SpecSessions
MaxDeltas == 3          \* chunks of the streams of one turn of SpecStream
MaxIndex == 1           \* largest tool-call index of a fragment
MaxInFlight == 2        \* intake turns in flight at once in SpecBurst

\* ------------------------------------------------------- program constants
INTAKE_MAX_SESSIONS_PER_HOUR == 3
INTAKE_MAX_TURNS == 10
RATE_WINDOW == 60            \* 3600_000 ms
SESSION_TTL_MS == 5          \* 5 * 60 * 1000 ms
MAX_TOOL_ITERATIONS_INTAKE == 3
MAX_TOOL_ITERATIONS == 5

Sockets == {"s1", "s2"}
IPs == {"ip1", "ip2"}
SessionIds == {1, 2}
CaseIds == {1, 2}
ClientIds == 1..(MaxStarts + 1)

Null == "null"

\* a Map of the code is a function on its keys
EmptyMap == [k \in {} |-> 0]
Has(m, k) == k \in DOMAIN m
Put(m, k, v) == [y \in DOMAIN m \cup {k} |-> IF y = k THEN v ELSE m[y]]
Del(m, k) == [y \in DOMAIN m \ {k} |-> m[y]]
\* m.get(k) || d
GetOr(m, k, d) == IF Has(m, k) THEN m[k] ELSE d

\* the messages of the error events, by what they say
RateLimitMsg == "too_frequent_try_later"
NotStartedMsg == "start_conversation_first"
ExpiredMsg == "conversation_expired"
TurnQuotaMsg == "turn_limit_reached"
ProcessingErrorMsg == "processing_error_retry"
NotJoinedMsg == "not_joined"
AgentErrorMsg == "agent_error_retry"
IntakeFallback == "intake_fallback"
AgentFallback == "max_iterations_reached"

INTAKE_FIELDS == <<"background", "currentState", "painPoints", "expectedOutcome">>
IntakeKeys == {INTAKE_FIELDS[n] : n \in 1..Len(INTAKE_FIELDS)}
PRD_SECTION_KEYS ==
  <<"background", "users", "scope", "asIs", "toBe", "userStories", "acceptance",
    "dataModel", "permissions", "nonFunctional", "kpi", "risks", "mvpScope">>
PrdKeys == {PRD_SECTION_KEYS[n] : n \in 1..Len(PRD_SECTION_KEYS)}

Empty == <<>>        \* the empty text
Text == <<0>>        \* some text with visible characters
Blank == <<1>>       \* a non-empty text of white space only
\* String.prototype.trim
Trim(v) == IF v = Blank THEN Empty ELSE v
\* the truthiness of a string
Truthy(v) == v # Empty
\* what a section holds after content was written to it by the write named wid
Stored(content, wid) == IF Trim(content) = Empty THEN content ELSE wid
emptyIntakeData == [k \in IntakeKeys |-> Empty]
emptySections == [k \in PrdKeys |-> Empty]

VARIABLES
  now,                 \* Date.now(), in minutes
  ticks,               \* clock advances so far
  connected,           \* socket -> the connection is open
  socketIp,            \* socket -> socket.handshake.address
  intakeRateMap,       \* ip -> {count, resetAt}
  intakeSessions,      \* the keys of the intakeSessions map
  sessionObj,          \* clientId -> the IntakeSession object
  nextClient,          \* the next randomUUID()
  intakeClientId,      \* socket -> its closure's intakeClientId
  intakeAudioBuffers,  \* socket -> its closure's pending chunks
  startLog,            \* the intakeStart events handled so far, in order
  sockErr,             \* socket -> the last error event emitted to it outside a turn
  turns,               \* the user-message handlers started so far
  currentSessionId,    \* socket -> its closure's currentSessionId
  currentCaseId,       \* socket -> its closure's currentCaseId
  joinPc,              \* socket -> joinSession awaits the transcript count
  sessionHistories,    \* sessionId -> history
  sessionSeqCounters,  \* sessionId -> counter
  sessionAudioBuffers, \* sessionId -> pending chunks
  sessionRecordings,   \* sessionId -> the array of archived chunks
  recordingHeap,       \* the arrays of archived chunks created so far
  transcripts,         \* the transcripts table, in insertion order
  prdVersions,         \* the prd_versions table
  artifacts,           \* the artifacts table
  patches,             \* the PATCH .../prd/draft requests handled so far
  discPc,              \* socket -> where its disconnect handler is in saving a recording
  sttCalls,            \* the buffers handed to transcribeAudio, in order
  audioLog,            \* the audio events accepted so far, in order
  nextChunk            \* the next audio chunk

clockVars == <<now, ticks>>
sockVars == <<connected, socketIp>>
registryVars == <<intakeRateMap, intakeSessions, sessionObj, nextClient, intakeClientId, startLog>>
interviewVars == <<currentSessionId, currentCaseId, joinPc, sessionHistories, sessionSeqCounters>>
dbVars == <<transcripts, prdVersions, artifacts, patches>>
recVars == <<sessionRecordings, recordingHeap>>
audioVars == <<intakeAudioBuffers, sessionAudioBuffers, recVars, discPc, sttCalls,
               audioLog, nextChunk>>
vars == <<clockVars, sockVars, registryVars, sockErr, turns, interviewVars, dbVars, audioVars>>

\* ----------------------------------------------------------------- helpers
Range(f) == {f[x] : x \in DOMAIN f}


\* Math.round of 100 * filled / total, for non-negative operands
RoundPct(filled, total) == (200 * filled + total) \div (2 * total)

\* --------------------------------------------------------------------- Init
\* a disconnect handler that is not saving a recording
NoSave == [pc |-> "idle", session |-> 0, recording |-> 0, audio |-> <<>>]

newSession(t) ==
  [messages |-> <<>>, data |-> emptyIntakeData, isComplete |-> FALSE, summary |-> Empty,
   turnCount |-> 0, lastActivity |-> t]

Init ==
  /\ now = 0
  /\ ticks = 0
  /\ connected = [s \in Sockets |-> FALSE]
  /\ socketIp = [s \in Sockets |-> Null]
  /\ intakeRateMap = EmptyMap
  /\ intakeSessions = {}
  /\ sessionObj = [c \in ClientIds |-> newSession(0)]
  /\ nextClient = 1
  /\ intakeClientId = [s \in Sockets |-> 0]
  /\ intakeAudioBuffers = [s \in Sockets |-> <<>>]
  /\ startLog = <<>>
  /\ sockErr = [s \in Sockets |-> Null]
  /\ turns = <<>>
  /\ currentSessionId = [s \in Sockets |-> 0]
  /\ currentCaseId = [s \in Sockets |-> 0]
  /\ joinPc = [s \in Sockets |-> 0]
  /\ sessionHistories = EmptyMap
  /\ sessionSeqCounters = EmptyMap
  /\ sessionAudioBuffers = EmptyMap
  /\ sessionRecordings = EmptyMap
  /\ recordingHeap = <<>>
  /\ transcripts = <<>>
  /\ prdVersions = <<>>
  /\ artifacts = <<>>
  /\ patches = <<>>
  /\ discPc = [s \in Sockets |-> NoSave]
  /\ sttCalls = <<>>
  /\ audioLog = <<>>
  /\ nextChunk = 1

\* ------------------------------------------------------------ the clock
Tick(d) ==
  /\ now' = now + d
  /\ ticks' = ticks + 1
  /\ UNCHANGED <<sockVars, registryVars, sockErr, turns, interviewVars, dbVars, audioVars>>

\* socket.ts 38-42, 147-148: a client connects from ip; the socket gets its closure
Connect(s, ip) ==
  /\ socketIp[s] = Null
  /\ connected' = [connected EXCEPT ![s] = TRUE]
  /\ socketIp' = [socketIp EXCEPT ![s] = ip]
  /\ UNCHANGED <<clockVars, registryVars, sockErr, turns, interviewVars, dbVars, audioVars>>

\* ------------------------------------------------- intake session registry
\* a faulty admission test: the cap is compared with > instead of >=
RateCheckOffByOne(map, ip, t) ==
  IF ~Has(map, ip)
  THEN [ok |-> TRUE, rate |-> [count |-> 1, resetAt |-> t + RATE_WINDOW]]
  ELSE LET rate == map[ip]
           cur == IF t > rate.resetAt
                  THEN [count |-> 0, resetAt |-> t + RATE_WINDOW]
                  ELSE rate
       IN IF cur.count > INTAKE_MAX_SESSIONS_PER_HOUR
          THEN [ok |-> FALSE, rate |-> cur]
          ELSE [ok |-> TRUE, rate |-> [cur EXCEPT !.count = cur.count + 1]]

\* socket.ts 155-168: the admission window of one ip at time t
RateCheck(map, ip, t) ==
  IF ~Has(map, ip)
  THEN [ok |-> TRUE, rate |-> [count |-> 1, resetAt |-> t + RATE_WINDOW]]
  ELSE LET rate == map[ip]
           cur == IF t > rate.resetAt
                  THEN [count |-> 0, resetAt |-> t + RATE_WINDOW]
                  ELSE rate
       IN IF cur.count >= INTAKE_MAX_SESSIONS_PER_HOUR
          THEN [ok |-> FALSE, rate |-> cur]
          ELSE [ok |-> TRUE, rate |-> [cur EXCEPT !.count = cur.count + 1]]

IntakeStart(s) ==
  /\ connected[s]
  /\ LET ip == socketIp[s]
         chk == RateCheck(intakeRateMap, ip, now)
     IN /\ intakeRateMap' = Put(intakeRateMap, ip, chk.rate)
        /\ startLog' = Append(startLog,
             [socket |-> s, ip |-> ip, at |-> now, session |-> IF chk.ok THEN nextClient ELSE 0,
              error |-> IF chk.ok THEN Null ELSE RateLimitMsg])
        /\ IF chk.ok
           THEN /\ intakeClientId' = [intakeClientId EXCEPT ![s] = nextClient]
                /\ intakeSessions' = intakeSessions \cup {nextClient}
                /\ sessionObj' = [sessionObj EXCEPT ![nextClient] = newSession(now)]
                /\ nextClient' = nextClient + 1
                /\ UNCHANGED sockErr
           ELSE /\ sockErr' = [sockErr EXCEPT ![s] = RateLimitMsg]
                /\ UNCHANGED <<intakeClientId, intakeSessions, sessionObj, nextClient>>
  /\ UNCHANGED <<clockVars, sockVars, turns, interviewVars, dbVars, audioVars>>

\* a faulty test: a session idle for exactly the TTL is stale already
IsStaleAtTtl(session, t) == t - session.lastActivity >= SESSION_TTL_MS
\* intake-agent.ts 30: the sweep's test of one session at time t
IsStale(session, t) == t - session.lastActivity > SESSION_TTL_MS

\* intake-agent.ts 28-33: the sessions the sweep leaves when it runs at time t
Swept(sessions, t) == {c \in sessions : ~IsStale(sessionObj[c], t)}

\* intake-agent.ts 27-34: one run of the sweep; the timer fires every minute
Sweep ==
  /\ intakeSessions' = Swept(intakeSessions, now)
  /\ UNCHANGED <<clockVars, sockVars, intakeRateMap, sessionObj, nextClient, intakeClientId,
                 startLog, sockErr, turns, interviewVars, dbVars, audioVars>>

\* ------------------------------------------------------ model responses
\* One streamed response, after the accumulation of its deltas: text says whether
\* any content delta arrived, calls is toolCallsRaw.  A call's args are its
\* accumulated argument string: ok says whether it is valid JSON, obj is the
\* object it denotes (Text a non-empty string, Empty the empty string).
NoArgs == [k \in {} |-> Empty]
Args(obj) == [ok |-> TRUE, obj |-> obj]
Malformed == [ok |-> FALSE, obj |-> NoArgs]
Call(name, args) == [name |-> name, args |-> args]

Unnamed == Call("", Args(NoArgs))
UnknownTool == Call("no_such_tool", Args(NoArgs))
UpdPain == Call("update_intake", Args([k \in {"painPoints"} |-> Text]))
UpdTwo == Call("update_intake", Args([k \in {"background", "painPoints"} |-> Text]))
UpdBlank == Call("update_intake", Args([k \in {"painPoints"} |-> Empty]))
UpdMalformed == Call("update_intake", Malformed)
MarkComplete == Call("mark_complete", Args([k \in {"summary"} |-> Text]))
MarkNoSummary == Call("mark_complete", Malformed)
UpdBadKey == Call("update_intake", Args([k \in {"no_such_field"} |-> Text]))

IsNamed(tc) == tc.name # ""
\* a faulty termination test: the every(tc => !tc.function.name) half is missing
NoToolCallsEmptyOnly(toolCallsRaw) == Len(toolCallsRaw) = 0
\* agent.ts 140, intake-agent.ts 134: the termination test
NoToolCalls(toolCallsRaw) ==
  Len(toolCallsRaw) = 0 \/ \A n \in 1..Len(toolCallsRaw) : ~IsNamed(toolCallsRaw[n])

\* agent.ts 167-172, intake-agent.ts 163-168: JSON.parse, {} when it throws
ParseArgs(a) == IF a.ok THEN a.obj ELSE NoArgs

\* ------------------------------------------------------------ intake agent
\* intake-agent.ts 59-62
calcIntakeCompleteness(data) ==
  RoundPct(Cardinality({k \in IntakeKeys : Trim(data[k]) # Empty}), Len(INTAKE_FIELDS))

\* a faulty mark_complete: the flag is toggled instead of set
IntakeDispatchToggling(session, tc, wid) ==
  LET args == ParseArgs(tc.args)
  IN IF tc.name = "update_intake"
     THEN LET updated == {k \in IntakeKeys : k \in DOMAIN args /\ Truthy(args[k])}
              data == [k \in IntakeKeys |->
                         IF k \in updated THEN Stored(args[k], wid) ELSE session.data[k]]
          IN [session |-> [session EXCEPT !.data = data], updated |-> updated,
              result |-> [kind |-> "success", completeness |-> calcIntakeCompleteness(data)]]
     ELSE IF tc.name = "mark_complete"
     THEN LET summary == IF "summary" \in DOMAIN args /\ Truthy(args["summary"])
                         THEN Stored(args["summary"], wid) ELSE Empty
          IN [session |-> [session EXCEPT !.isComplete = ~session.isComplete,
                                          !.summary = summary],
              updated |-> {}, result |-> [kind |-> "success", completeness |-> -1]]
     ELSE [session |-> session, updated |-> {},
           result |-> [kind |-> "unknown_tool", completeness |-> -1]]

\* intake-agent.ts 172-192: one tool call on the session; wid names the call
IntakeDispatch(session, tc, wid) ==
  LET args == ParseArgs(tc.args)
  IN IF tc.name = "update_intake"
     THEN LET updated == {k \in IntakeKeys : k \in DOMAIN args /\ Truthy(args[k])}
              data == [k \in IntakeKeys |->
                         IF k \in updated THEN Stored(args[k], wid) ELSE session.data[k]]
          IN [session |-> [session EXCEPT !.data = data], updated |-> updated,
              result |-> [kind |-> "success", completeness |-> calcIntakeCompleteness(data)]]
     ELSE IF tc.name = "mark_complete"
     THEN LET summary == IF "summary" \in DOMAIN args /\ Truthy(args["summary"])
                         THEN Stored(args["summary"], wid) ELSE Empty
          IN [session |-> [session EXCEPT !.isComplete = TRUE, !.summary = summary],
              updated |-> {}, result |-> [kind |-> "success", completeness |-> -1]]
     ELSE [session |-> session, updated |-> {},
           result |-> [kind |-> "unknown_tool", completeness |-> -1]]

ToolMsg(n, result) == [role |-> "tool", id |-> n, result |-> result]
\* a faulty assistant message: the filter(tc => tc.function.name) is missing
AssistantCallsUnfiltered(toolCallsRaw) ==
  [role |-> "assistant",
   calls |-> [n \in 1..Len(toolCallsRaw) |-> [id |-> n, name |-> toolCallsRaw[n].name]]]
\* agent.ts 153-162, intake-agent.ts 149-158: the assistant message that declares the calls
AssistantCalls(toolCallsRaw) ==
  [role |-> "assistant",
   calls |-> SelectSeq([n \in 1..Len(toolCallsRaw) |-> [id |-> n, name |-> toolCallsRaw[n].name]],
                       IsNamed)]

\* intake-agent.ts 160-195: the tool calls from index n on, in index order
RECURSIVE IntakeExec(_, _, _, _, _, _, _)
IntakeExec(session, messages, applied, toolCallsRaw, n, t, i) ==
  IF n > Len(toolCallsRaw)
  THEN [session |-> session, messages |-> messages, applied |-> applied]
  ELSE IF ~IsNamed(toolCallsRaw[n])
  THEN IntakeExec(session, messages, applied, toolCallsRaw, n + 1, t, i)
  ELSE LET d == IntakeDispatch(session, toolCallsRaw[n], <<t, i, n>>)
       IN IntakeExec(d.session, Append(messages, ToolMsg(n, d.result)),
                     applied \cup d.updated, toolCallsRaw, n + 1, t, i)

UserMsg(t) == [role |-> "user", turn |-> t]
\* a faulty history entry: the reply is stored under the role of the user
ReplyMsgAsUser(t, reply) == [role |-> "user", turn |-> t, content |-> reply]
ReplyMsg(t, reply) == [role |-> "assistant", turn |-> t, content |-> reply]
\* a faulty tools parameter: the last iteration still offers the tools
ToolsAlwaysAttached(i, max) == TRUE
\* the tools parameter of create(): agent.ts 99-105, intake-agent.ts 94-100
ToolsAttached(i, max) == ~(i = max - 1)
Invocation(i, max) == [i |-> i, tools |-> ToolsAttached(i, max)]

Turn(kind, s, sid, caseId) ==
  [kind |-> kind, sock |-> s, sid |-> sid, caseId |-> caseId, pc |-> "model", i |-> 0,
   messages |-> <<>>, invoked |-> <<>>, out |-> <<>>, reply |-> Null,
   calls |-> <<>>, n |-> 0, prd |-> [id |-> 0, sections |-> emptySections],
   prdUpdated |-> FALSE, summary |-> Empty, seq |-> -1, applied |-> {}, thrown |-> Null,
   stream |-> <<>>,
   result |-> [data |-> emptyIntakeData, isComplete |-> FALSE, summary |-> Empty,
               completeness |-> 0]]

\* intake-agent.ts 139-145, 203-209 and socket.ts 230-243: the turn returns
IntakeReturn(tr, session, reply) ==
  [tr EXCEPT !.pc = "done", !.reply = reply,
             !.out = tr.out \o <<"typing_off", "message", "data_update">>,
             !.result = [data |-> session.data, isComplete |-> session.isComplete,
                         summary |-> session.summary,
                         completeness |-> calcIntakeCompleteness(session.data)]]

Reject(s, msg) == sockErr' = [sockErr EXCEPT ![s] = msg]

\* a faulty quota test: one turn more is let through
QuotaReachedLate(session) == session.turnCount > INTAKE_MAX_TURNS
\* socket.ts 218: the turn quota of an intake session
QuotaReached(session) == session.turnCount >= INTAKE_MAX_TURNS

\* a faulty count: the turn is not counted
CountTurnNever(session) == session
\* intake-agent.ts 83: the turn is counted at the start of runIntakeAgent
CountTurn(session) == [session EXCEPT !.turnCount = @ + 1]

\* a faulty lookup: lastActivity is not refreshed
getIntakeSessionNoRefresh(c, t) == sessionObj[c]
\* intake-agent.ts 49-53: the session a successful lookup at time t returns
getIntakeSession(c, t) == [sessionObj[c] EXCEPT !.lastActivity = t]

\* socket.ts 206-228 and intake-agent.ts 77-102: the handler up to its first await
IntakeMessage(s) ==
  /\ connected[s]
  /\ LET c == intakeClientId[s]
     IN IF c = 0
        THEN Reject(s, NotStartedMsg) /\ UNCHANGED <<sessionObj, turns>>
        ELSE IF c \notin intakeSessions
        THEN Reject(s, ExpiredMsg) /\ UNCHANGED <<sessionObj, turns>>
        ELSE LET session == getIntakeSession(c, now)
             IN IF QuotaReached(session)
                THEN /\ Reject(s, TurnQuotaMsg)
                     /\ sessionObj' = [sessionObj EXCEPT ![c] = session]
                     /\ UNCHANGED turns
                ELSE LET t == Len(turns) + 1
                         tr == Turn("intake", s, c, 0)
                     IN /\ sessionObj' =
                             [sessionObj EXCEPT ![c] = CountTurn(session)]
                        /\ turns' = Append(turns,
                             [tr EXCEPT !.out = <<"typing_on">>,
                                        !.messages = <<[role |-> "system"]>> \o session.messages
                                                       \o <<UserMsg(t)>>,
                                        !.invoked = <<Invocation(0, MAX_TOOL_ITERATIONS_INTAKE)>>])
                        /\ UNCHANGED sockErr
  /\ UNCHANGED <<clockVars, sockVars, intakeRateMap, intakeSessions, nextClient, intakeClientId,
                 startLog, interviewVars, dbVars, audioVars>>

\* intake-agent.ts 104-197 and 199-209: one streamed response and everything up to
\* the next create() or to the return
IntakeRespond(t, resp) ==
  /\ t \in DOMAIN turns
  /\ turns[t].kind = "intake" /\ turns[t].pc = "model"
  /\ LET tr0 == turns[t]
         tr == [tr0 EXCEPT !.out = IF resp.text THEN Append(tr0.out, "stream") ELSE tr0.out]
         c == tr.sid
         session == sessionObj[c]
         saved(reply) ==
           [session EXCEPT !.messages = session.messages \o <<UserMsg(t), ReplyMsg(t, reply)>>]
     IN IF NoToolCalls(resp.calls)
        THEN /\ sessionObj' = [sessionObj EXCEPT ![c] = saved("plain")]
             /\ turns' = [turns EXCEPT ![t] = IntakeReturn(tr, session, "plain")]
        ELSE LET x == IntakeExec(session, Append(tr.messages, AssistantCalls(resp.calls)),
                                 tr.applied, resp.calls, 1, t, tr.i)
                 i == tr.i + 1
             IN IF i < MAX_TOOL_ITERATIONS_INTAKE
                THEN /\ sessionObj' = [sessionObj EXCEPT ![c] = x.session]
                     /\ turns' = [turns EXCEPT ![t] =
                          [tr EXCEPT !.i = i, !.messages = x.messages, !.applied = x.applied,
                                     !.invoked = Append(tr.invoked,
                                        Invocation(i, MAX_TOOL_ITERATIONS_INTAKE))]]
                ELSE /\ sessionObj' = [sessionObj EXCEPT ![c] =
                          [x.session EXCEPT !.messages =
                             x.session.messages \o <<UserMsg(t), ReplyMsg(t, IntakeFallback)>>]]
                     /\ turns' = [turns EXCEPT ![t] =
                          IntakeReturn([tr EXCEPT !.i = i, !.messages = x.messages,
                                                   !.applied = x.applied],
                                       x.session, IntakeFallback)]
  /\ UNCHANGED <<clockVars, sockVars, intakeRateMap, intakeSessions, nextClient, intakeClientId,
                 startLog, sockErr, interviewVars, dbVars, audioVars>>

\* intake-agent.ts 96 or 110 throws, socket.ts 244-248 catches
\* (partial: some content had been streamed before the failure)
IntakeFail(t, partial) ==
  /\ t \in DOMAIN turns
  /\ turns[t].kind = "intake" /\ turns[t].pc = "model"
  /\ turns' = [turns EXCEPT ![t] =
       [@ EXCEPT !.pc = "failed", !.thrown = "model",
                 !.out = @ \o (IF partial THEN <<"stream">> ELSE <<>>)
                           \o <<"typing_off", "error">>]]
  /\ UNCHANGED <<clockVars, sockVars, registryVars, sockErr, interviewVars, dbVars, audioVars>>

\* -------------------------------------------------------- interview agent
PrdUpdate(key) ==
  Call("update_prd_section",
       Args([k \in {"sectionKey", "content"} |-> IF k = "sectionKey" THEN key ELSE Text]))
PrdBackground == PrdUpdate("background")
PrdBadKey == PrdUpdate("no_such_section")
PrdMalformed == Call("update_prd_section", Malformed)
PrdBlank ==
  Call("update_prd_section",
       Args([k \in {"sectionKey", "content"} |-> IF k = "sectionKey" THEN "users" ELSE Blank]))
Summarize == Call("summarize_conversation", Args([k \in {"summary"} |-> Text]))

\* a faulty completeness: a section of white space counts as filled
calcCompletenessUntrimmed(sections) ==
  RoundPct(Cardinality({k \in PrdKeys : Truthy(sections[k])}), Len(PRD_SECTION_KEYS))
\* agent.ts 56-59
calcCompleteness(sections) ==
  RoundPct(Cardinality({k \in PrdKeys : Truthy(sections[k]) /\ Trim(sections[k]) # Empty}),
           Len(PRD_SECTION_KEYS))

\* agent.ts 181: the call is an update the code writes to the database
IsPrdWrite(tc) ==
  LET args == ParseArgs(tc.args)
  IN /\ tc.name = "update_prd_section"
     /\ "sectionKey" \in DOMAIN args /\ args["sectionKey"] \in PrdKeys
     /\ "content" \in DOMAIN args /\ Truthy(args["content"])

\* a faulty dispatch: the final else is missing, a tool that is not
\* update_prd_section is taken for summarize_conversation
AgentDispatchNoElse(prd, tc, wid) ==
  LET args == ParseArgs(tc.args)
  IN IF tc.name = "update_prd_section"
     THEN IF IsPrdWrite(tc)
          THEN LET updatedSections ==
                     [prd.sections EXCEPT ![args["sectionKey"]] = Stored(args["content"], wid)]
               IN [sections |-> updatedSections, written |-> TRUE, summary |-> FALSE,
                   result |-> [kind |-> "success",
                               completeness |-> calcCompleteness(updatedSections)]]
          ELSE [sections |-> prd.sections, written |-> FALSE, summary |-> FALSE,
                result |-> [kind |-> "invalid_section", completeness |-> -1]]
     ELSE [sections |-> prd.sections, written |-> FALSE, summary |-> TRUE,
           result |-> [kind |-> "success", completeness |-> -1]]

\* agent.ts 177-220: one tool call on the turn's draft; wid names the call.
\* sections is what the call leaves in prd.content.sections, written says whether
\* the whole of it was written to the draft's row.
AgentDispatch(prd, tc, wid) ==
  LET args == ParseArgs(tc.args)
  IN IF tc.name = "update_prd_section"
     THEN IF IsPrdWrite(tc)
          THEN LET updatedSections ==
                     [prd.sections EXCEPT ![args["sectionKey"]] = Stored(args["content"], wid)]
               IN [sections |-> updatedSections, written |-> TRUE, summary |-> FALSE,
                   result |-> [kind |-> "success",
                               completeness |-> calcCompleteness(updatedSections)]]
          ELSE [sections |-> prd.sections, written |-> FALSE, summary |-> FALSE,
                result |-> [kind |-> "invalid_section", completeness |-> -1]]
     ELSE IF tc.name = "summarize_conversation"
     THEN [sections |-> prd.sections, written |-> FALSE, summary |-> TRUE,
           result |-> [kind |-> "success", completeness |-> -1]]
     ELSE [sections |-> prd.sections, written |-> FALSE, summary |-> FALSE,
           result |-> [kind |-> "unknown_tool", completeness |-> -1]]

\* the first named call at index n or later, Len + 1 when there is none
RECURSIVE NextNamed(_, _)
NextNamed(toolCallsRaw, n) ==
  IF n > Len(toolCallsRaw) THEN n
  ELSE IF IsNamed(toolCallsRaw[n]) THEN n
  ELSE NextNamed(toolCallsRaw, n + 1)

Joined(s) == currentSessionId[s] # 0 /\ currentCaseId[s] # 0
TranscriptCount(x) == Cardinality({n \in 1..Len(transcripts) : transcripts[n].sessionId = x})

\* socket.ts 55-67: joinSession up to the await of the transcript count.
\* The await of socket.join(room) at line 59 is not a step boundary: server.ts 31
\* configures no adapter, the in-memory adapter joins synchronously, and the
\* handler resumes in a microtask before any other event is dispatched.
JoinSession(s, x, c) ==
  /\ connected[s]
  /\ currentSessionId' = [currentSessionId EXCEPT ![s] = x]
  /\ currentCaseId' = [currentCaseId EXCEPT ![s] = c]
  /\ sessionHistories' =
       IF ~Has(sessionHistories, x) THEN Put(sessionHistories, x, <<>>)
       ELSE sessionHistories
  /\ joinPc' = IF ~Has(sessionSeqCounters, x)
               THEN [joinPc EXCEPT ![s] = x]
               ELSE joinPc
  /\ UNCHANGED <<clockVars, sockVars, registryVars, sockErr, turns, sessionSeqCounters, dbVars,
                 audioVars>>

\* socket.ts 67-71: the count arrives
JoinLoaded(s) ==
  /\ joinPc[s] # 0
  /\ sessionSeqCounters' = Put(sessionSeqCounters, joinPc[s], TranscriptCount(joinPc[s]))
  /\ joinPc' = [joinPc EXCEPT ![s] = 0]
  /\ UNCHANGED <<clockVars, sockVars, registryVars, sockErr, turns, currentSessionId,
                 currentCaseId, sessionHistories, dbVars, audioVars>>

\* sessionSeqCounters.get(sessionId) || 0
SeqOf(x) == GetOr(sessionSeqCounters, x, 0)

\* socket.ts 75-82 and 137-144, then 293-305: chatMessage or sendTranscription up to
\* the await of the user transcript's insert
ChatMessage(s) ==
  /\ connected[s]
  /\ IF ~Joined(s)
     THEN Reject(s, NotJoinedMsg) /\ UNCHANGED turns
     ELSE /\ turns' = Append(turns,
               [Turn("interview", s, currentSessionId[s], currentCaseId[s])
                  EXCEPT !.pc = "save_user", !.seq = SeqOf(currentSessionId[s])])
          /\ UNCHANGED sockErr
  /\ UNCHANGED <<clockVars, sockVars, registryVars, interviewVars, dbVars, audioVars>>

\* socket.ts 298-339: the insert is done; up to the await of the draft's select
SaveUser(t) ==
  /\ t \in DOMAIN turns
  /\ turns[t].kind = "interview" /\ turns[t].pc = "save_user"
  /\ LET tr == turns[t]
     IN /\ transcripts' = Append(transcripts,
             [sessionId |-> tr.sid, speaker |-> "consultant", sequenceNumber |-> tr.seq,
              turn |-> t])
        /\ sessionSeqCounters' = Put(sessionSeqCounters, tr.sid, tr.seq + 1)
        /\ turns' = [turns EXCEPT ![t] =
             [tr EXCEPT !.pc = "load_prd", !.out = <<"user_message", "typing_on">>]]
  /\ UNCHANGED <<clockVars, sockVars, registryVars, sockErr, currentSessionId, currentCaseId,
                 joinPc, sessionHistories, prdVersions, artifacts, patches, audioVars>>

DraftsOf(c) == {id \in 1..Len(prdVersions) : prdVersions[id].caseId = c}

\* agent.ts 87-107: the message context and the first create()
AgentBegin(tr, t, prd) ==
  [tr EXCEPT !.pc = "model", !.prd = prd,
             !.messages = <<[role |-> "system"]>> \o GetOr(sessionHistories, tr.sid, <<>>)
                                                    \o <<UserMsg(t)>>,
             !.invoked = <<Invocation(0, MAX_TOOL_ITERATIONS)>>]

\* agent.ts 30-40: the select finds a draft (any of them when a race made several)
LoadPrd(t, id) ==
  /\ t \in DOMAIN turns
  /\ turns[t].kind = "interview" /\ turns[t].pc = "load_prd"
  /\ id \in DraftsOf(turns[t].caseId)
  /\ turns' = [turns EXCEPT ![t] =
       AgentBegin(@, t, [id |-> id, sections |-> prdVersions[id].sections])]
  /\ UNCHANGED <<clockVars, sockVars, registryVars, sockErr, interviewVars, dbVars, audioVars>>

\* agent.ts 30-44: the select finds none
LoadNoPrd(t) ==
  /\ t \in DOMAIN turns
  /\ turns[t].kind = "interview" /\ turns[t].pc = "load_prd"
  /\ DraftsOf(turns[t].caseId) = {}
  /\ turns' = [turns EXCEPT ![t] = [@ EXCEPT !.pc = "create_prd"]]
  /\ UNCHANGED <<clockVars, sockVars, registryVars, sockErr, interviewVars, dbVars, audioVars>>

\* agent.ts 43-52: the initial draft is inserted
CreatePrd(t) ==
  /\ t \in DOMAIN turns
  /\ turns[t].kind = "interview" /\ turns[t].pc = "create_prd"
  /\ prdVersions' = Append(prdVersions,
       [caseId |-> turns[t].caseId, sections |-> emptySections, completeness |-> 0])
  /\ turns' = [turns EXCEPT ![t] =
       AgentBegin(@, t, [id |-> Len(prdVersions) + 1, sections |-> emptySections])]
  /\ UNCHANGED <<clockVars, sockVars, registryVars, sockErr, interviewVars, transcripts,
                 artifacts, patches, audioVars>>

\* agent.ts 149 or 227 and socket.ts 348-358: runAgent returns; up to the await of
\* the agent transcript's insert
AgentReturn(tr, reply) ==
  [tr EXCEPT !.pc = "save_agent", !.reply = reply,
             !.out = tr.out \o <<"typing_off", "message">>,
             !.seq = SeqOf(tr.sid)]

\* agent.ts 98-107 and 225-227: the loop goes on to iteration i, or is exhausted
AgentIterate(tr, i) ==
  IF i < MAX_TOOL_ITERATIONS
  THEN [tr EXCEPT !.pc = "model", !.i = i, !.calls = <<>>, !.n = 0,
                  !.invoked = Append(tr.invoked, Invocation(i, MAX_TOOL_ITERATIONS))]
  ELSE AgentReturn([tr EXCEPT !.i = i, !.calls = <<>>, !.n = 0], AgentFallback)

\* agent.ts 109-162: one streamed response, up to the first await after it
AgentRespond(t, resp) ==
  /\ t \in DOMAIN turns
  /\ turns[t].kind = "interview" /\ turns[t].pc = "model"
  /\ LET tr0 == turns[t]
         tr == [tr0 EXCEPT !.out = IF resp.text THEN Append(tr0.out, "stream") ELSE tr0.out]
     IN turns' = [turns EXCEPT ![t] =
          IF NoToolCalls(resp.calls)
          THEN AgentReturn(tr, "plain")
          ELSE [tr EXCEPT !.pc = "tool", !.calls = resp.calls,
                          !.n = NextNamed(resp.calls, 1),
                          !.messages = Append(tr.messages, AssistantCalls(resp.calls))]]
  /\ UNCHANGED <<clockVars, sockVars, registryVars, sockErr, interviewVars, dbVars, audioVars>>

\* agent.ts 164-223: the tool call at index n, its write to the draft's row included
AgentTool(t) ==
  /\ t \in DOMAIN turns
  /\ turns[t].kind = "interview" /\ turns[t].pc = "tool"
  /\ LET tr == turns[t]
         d == AgentDispatch(tr.prd, tr.calls[tr.n], <<t, tr.i, tr.n>>)
         n == NextNamed(tr.calls, tr.n + 1)
         done == [tr EXCEPT !.prd.sections = d.sections,
                            !.applied = IF d.written
                                        THEN @ \cup {ParseArgs(tr.calls[tr.n].args)["sectionKey"]}
                                        ELSE @,
                            !.prdUpdated = tr.prdUpdated \/ d.written,
                            !.summary = IF d.summary THEN <<t, tr.i, tr.n>> ELSE tr.summary,
                            !.messages = Append(tr.messages, ToolMsg(tr.n, d.result)),
                            !.n = n]
     IN /\ prdVersions' =
             IF d.written
             THEN [prdVersions EXCEPT ![tr.prd.id] =
                     [@ EXCEPT !.sections = d.sections,
                               !.completeness = d.result.completeness]]
             ELSE prdVersions
        /\ turns' = [turns EXCEPT ![t] =
             IF n > Len(tr.calls) THEN AgentIterate(done, tr.i + 1) ELSE done]
  /\ UNCHANGED <<clockVars, sockVars, registryVars, sockErr, interviewVars, transcripts,
                 artifacts, patches, audioVars>>

\* a faulty catch: the typing indicator is left on
AgentCaughtTypingOn(tr, partial, thrown) ==
  [tr EXCEPT !.pc = "failed", !.thrown = thrown,
             !.out = tr.out \o (IF partial THEN <<"stream">> ELSE <<>>) \o <<"error">>]

\* socket.ts 388-392: the handler's catch
AgentCaught(tr, partial, thrown) ==
  [tr EXCEPT !.pc = "failed", !.thrown = thrown,
             !.out = tr.out \o (IF partial THEN <<"stream">> ELSE <<>>)
                            \o <<"typing_off", "error">>]

\* a faulty parse: JSON.parse is not guarded, a malformed argument string throws
AgentToolFailOnParse(t) ==
  /\ t \in DOMAIN turns
  /\ turns[t].kind = "interview" /\ turns[t].pc = "tool"
  /\ IsPrdWrite(turns[t].calls[turns[t].n]) \/ ~turns[t].calls[turns[t].n].args.ok
  /\ turns' = [turns EXCEPT ![t] = AgentCaught(@, FALSE, "write")]
  /\ UNCHANGED <<clockVars, sockVars, registryVars, sockErr, interviewVars, dbVars, audioVars>>

\* agent.ts 186-191: the write to the draft's row throws
AgentToolFail(t) ==
  /\ t \in DOMAIN turns
  /\ turns[t].kind = "interview" /\ turns[t].pc = "tool"
  /\ IsPrdWrite(turns[t].calls[turns[t].n])
  /\ turns' = [turns EXCEPT ![t] = AgentCaught(@, FALSE, "write")]
  /\ UNCHANGED <<clockVars, sockVars, registryVars, sockErr, interviewVars, dbVars, audioVars>>

\* agent.ts 101 or 116 throws
AgentFail(t, partial) ==
  /\ t \in DOMAIN turns
  /\ turns[t].kind = "interview" /\ turns[t].pc = "model"
  /\ turns' = [turns EXCEPT ![t] = AgentCaught(@, partial, "model")]
  /\ UNCHANGED <<clockVars, sockVars, registryVars, sockErr, interviewVars, dbVars, audioVars>>

\* socket.ts 359-366 throws: the insert of the agent's line fails after the reply
\* was emitted, and the handler's catch (388-392) runs
SaveAgentFail(t) ==
  /\ t \in DOMAIN turns
  /\ turns[t].kind = "interview" /\ turns[t].pc = "save_agent"
  /\ turns' = [turns EXCEPT ![t] = AgentCaught(@, FALSE, "insert")]
  /\ UNCHANGED <<clockVars, sockVars, registryVars, sockErr, interviewVars, dbVars, audioVars>>

\* socket.ts 359-387: the insert is done; the history and the notifications
SaveAgent(t) ==
  /\ t \in DOMAIN turns
  /\ turns[t].kind = "interview" /\ turns[t].pc = "save_agent"
  /\ LET tr == turns[t]
         history == GetOr(sessionHistories, tr.sid, <<>>)
     IN /\ transcripts' = Append(transcripts,
             [sessionId |-> tr.sid, speaker |-> "agent", sequenceNumber |-> tr.seq,
              turn |-> t])
        /\ sessionSeqCounters' = Put(sessionSeqCounters, tr.sid, tr.seq + 1)
        /\ sessionHistories' =
             Put(sessionHistories, tr.sid, history \o <<UserMsg(t), ReplyMsg(t, tr.reply)>>)
        /\ turns' = [turns EXCEPT ![t] =
             [tr EXCEPT !.pc = "done",
                        !.out = tr.out \o (IF tr.prdUpdated THEN <<"prd_updated">> ELSE <<>>)
                                       \o (IF tr.summary # Empty THEN <<"summary">> ELSE <<>>)]]
  /\ UNCHANGED <<clockVars, sockVars, registryVars, sockErr, currentSessionId, currentCaseId,
                 joinPc, prdVersions, artifacts, patches, audioVars>>

\* ------------------------------------------------- manual edit of the draft
\* routes/prd.ts 155-168: PATCH /:caseId/prd/draft up to the await of the draft's
\* select; a request without a sectionKey is answered 400 (content is a string)
PatchDraft(c, key, content) ==
  /\ patches' = Append(patches,
       [caseId |-> c, sectionKey |-> key, content |-> content,
        pc |-> IF key # "" THEN "select" ELSE "done",
        status |-> IF key # "" THEN 0 ELSE 400,
        draft |-> [id |-> 0, sections |-> emptySections]])
  /\ UNCHANGED <<clockVars, sockVars, registryVars, sockErr, turns, interviewVars, transcripts,
                 prdVersions, artifacts, audioVars>>

\* routes/prd.ts 170-182: the select finds a draft; up to the await of the update
PatchSelect(p, id) ==
  /\ p \in DOMAIN patches /\ patches[p].pc = "select"
  /\ id \in DraftsOf(patches[p].caseId)
  /\ patches' = [patches EXCEPT ![p] =
       [@ EXCEPT !.pc = "update",
                 !.draft = [id |-> id, sections |-> prdVersions[id].sections]]]
  /\ UNCHANGED <<clockVars, sockVars, registryVars, sockErr, turns, interviewVars, transcripts,
                 prdVersions, artifacts, audioVars>>

\* routes/prd.ts 170-180: the select finds none, the answer is 404
PatchNoDraft(p) ==
  /\ p \in DOMAIN patches /\ patches[p].pc = "select"
  /\ DraftsOf(patches[p].caseId) = {}
  /\ patches' = [patches EXCEPT ![p] = [@ EXCEPT !.pc = "done", !.status = 404]]
  /\ UNCHANGED <<clockVars, sockVars, registryVars, sockErr, turns, interviewVars, transcripts,
                 prdVersions, artifacts, audioVars>>

\* routes/prd.ts 183-186
PatchCompleteness(updatedSections) ==
  RoundPct(Cardinality({k \in PrdKeys :
                          Truthy(updatedSections[k]) /\ Trim(updatedSections[k]) # Empty}),
           Len(PRD_SECTION_KEYS))

\* routes/prd.ts 182-196: the update of the draft's row is done, the answer is 200
PatchUpdate(p) ==
  /\ p \in DOMAIN patches /\ patches[p].pc = "update"
  /\ LET r == patches[p]
         updatedSections == Put(r.draft.sections, r.sectionKey, Stored(r.content, <<0, 0, p>>))
     IN /\ prdVersions' = [prdVersions EXCEPT ![r.draft.id] =
             [@ EXCEPT !.sections = updatedSections,
                       !.completeness = PatchCompleteness(updatedSections)]]
        /\ patches' = [patches EXCEPT ![p] = [@ EXCEPT !.pc = "done", !.status = 200]]
  /\ UNCHANGED <<clockVars, sockVars, registryVars, sockErr, turns, interviewVars, transcripts,
                 artifacts, audioVars>>

\* routes/prd.ts 188-200: the update throws, the answer is 500
PatchFail(p) ==
  /\ p \in DOMAIN patches /\ patches[p].pc = "update"
  /\ patches' = [patches EXCEPT ![p] = [@ EXCEPT !.pc = "done", !.status = 500]]
  /\ UNCHANGED <<clockVars, sockVars, registryVars, sockErr, turns, interviewVars, transcripts,
                 prdVersions, artifacts, audioVars>>

\* ------------------------------------------------------------------ audio
InterviewKey(x) == [kind |-> "interview", session |-> x, socket |-> Null]
IntakeKey(s) == [kind |-> "intake", session |-> 0, socket |-> s]
Pending(x) == GetOr(sessionAudioBuffers, x, <<>>)
\* the chunks of the array that sessionRecordings holds for session x
Recording(x) == IF Has(sessionRecordings, x) THEN recordingHeap[sessionRecordings[x]] ELSE <<>>

\* socket.ts 116-120 and 187-191: the buffer is handed to transcribeAudio
Transcribe(key, chunks) == Append(sttCalls, [key |-> key, audio |-> chunks, state |-> "pending"])

\* socket.ts 85-104
AudioChunk(s) ==
  /\ connected[s]
  /\ IF ~Joined(s)
     THEN /\ Reject(s, NotJoinedMsg)
          /\ UNCHANGED <<sessionAudioBuffers, recVars, audioLog, nextChunk>>
     ELSE LET x == currentSessionId[s]
          IN /\ sessionAudioBuffers' =
                  Put(sessionAudioBuffers, x, Append(Pending(x), nextChunk))
             /\ IF Has(sessionRecordings, x)
                THEN /\ recordingHeap' =
                          [recordingHeap EXCEPT ![sessionRecordings[x]] = Append(@, nextChunk)]
                     /\ UNCHANGED sessionRecordings
                ELSE /\ recordingHeap' = Append(recordingHeap, <<nextChunk>>)
                     /\ sessionRecordings' = Put(sessionRecordings, x, Len(recordingHeap) + 1)
             /\ audioLog' = Append(audioLog,
                  [op |-> "chunk", key |-> InterviewKey(x), chunk |-> nextChunk])
             /\ nextChunk' = nextChunk + 1
             /\ UNCHANGED sockErr
  /\ UNCHANGED <<clockVars, sockVars, registryVars, turns, interviewVars, dbVars,
                 intakeAudioBuffers, discPc, sttCalls>>

\* socket.ts 107-120: audioStop up to the await of the transcription
AudioStop(s) ==
  /\ connected[s]
  /\ Joined(s)
  /\ LET x == currentSessionId[s]
         chunks == Pending(x)
     IN /\ sessionAudioBuffers' = Put(sessionAudioBuffers, x, <<>>)
        /\ audioLog' = Append(audioLog, [op |-> "stop", key |-> InterviewKey(x), chunk |-> 0])
        /\ sttCalls' = IF Len(chunks) = 0 THEN sttCalls ELSE Transcribe(InterviewKey(x), chunks)
  /\ UNCHANGED <<clockVars, sockVars, registryVars, sockErr, turns, interviewVars, dbVars,
                 intakeAudioBuffers, recVars, discPc, nextChunk>>

\* socket.ts 176-179
IntakeAudioChunk(s) ==
  /\ connected[s]
  /\ intakeClientId[s] # 0
  /\ intakeAudioBuffers' = [intakeAudioBuffers EXCEPT ![s] = Append(@, nextChunk)]
  /\ audioLog' = Append(audioLog, [op |-> "chunk", key |-> IntakeKey(s), chunk |-> nextChunk])
  /\ nextChunk' = nextChunk + 1
  /\ UNCHANGED <<clockVars, sockVars, registryVars, sockErr, turns, interviewVars, dbVars,
                 sessionAudioBuffers, recVars, discPc, sttCalls>>

\* socket.ts 181-191: intakeAudioStop up to the await of the transcription
IntakeAudioStop(s) ==
  /\ connected[s]
  /\ intakeClientId[s] # 0
  /\ LET chunks == intakeAudioBuffers[s]
     IN /\ intakeAudioBuffers' = [intakeAudioBuffers EXCEPT ![s] = <<>>]
        /\ audioLog' = Append(audioLog, [op |-> "stop", key |-> IntakeKey(s), chunk |-> 0])
        /\ sttCalls' = IF Len(chunks) = 0 THEN sttCalls ELSE Transcribe(IntakeKey(s), chunks)
  /\ UNCHANGED <<clockVars, sockVars, registryVars, sockErr, turns, interviewVars, dbVars,
                 sessionAudioBuffers, recVars, discPc, nextChunk>>

\* socket.ts 120-133 and 191-203: transcribeAudio resolves, with a text or with null
SttDone(n, text) ==
  /\ n \in DOMAIN sttCalls
  /\ sttCalls[n].state = "pending"
  /\ sttCalls' = [sttCalls EXCEPT ![n].state = IF text THEN "text" ELSE "unrecognized"]
  /\ UNCHANGED <<clockVars, sockVars, registryVars, sockErr, turns, interviewVars, dbVars,
                 intakeAudioBuffers, sessionAudioBuffers, recVars, discPc, audioLog,
                 nextChunk>>

\* ------------------------------------------------------------- disconnect
\* socket.ts 286-287
Cleanup(buffers, x) == Del(buffers, x)

\* a faulty disconnect: the turns of the socket that are in flight are aborted
DisconnectAborting(s) ==
  /\ connected[s]
  /\ connected' = [connected EXCEPT ![s] = FALSE]
  /\ intakeSessions' = intakeSessions \ {intakeClientId[s]}
  /\ intakeClientId' = [intakeClientId EXCEPT ![s] = 0]
  /\ turns' = [t \in DOMAIN turns |->
                 IF turns[t].sock = s /\ turns[t].pc \notin {"done", "failed"}
                 THEN [turns[t] EXCEPT !.pc = "failed"] ELSE turns[t]]
  /\ UNCHANGED <<sessionAudioBuffers, recVars, discPc>>
  /\ UNCHANGED <<clockVars, socketIp, intakeRateMap, sessionObj, nextClient, startLog, sockErr,
                 interviewVars, dbVars, intakeAudioBuffers, sttCalls, audioLog, nextChunk>>

\* socket.ts 251-265 (and 286-287 when there is no recording to save): the handler
\* up to the await of mkdir; it holds the array that sessionRecordings has now
Disconnect(s) ==
  /\ connected[s]
  /\ connected' = [connected EXCEPT ![s] = FALSE]
  /\ intakeSessions' = intakeSessions \ {intakeClientId[s]}
  /\ intakeClientId' = [intakeClientId EXCEPT ![s] = 0]
  /\ IF Joined(s) /\ Len(Recording(currentSessionId[s])) > 0
     THEN /\ discPc' = [discPc EXCEPT ![s] =
               [pc |-> "mkdir", session |-> currentSessionId[s],
                recording |-> sessionRecordings[currentSessionId[s]], audio |-> <<>>]]
          /\ UNCHANGED <<sessionAudioBuffers, sessionRecordings>>
     ELSE IF Joined(s)
     THEN /\ sessionAudioBuffers' = Cleanup(sessionAudioBuffers, currentSessionId[s])
          /\ sessionRecordings' = Cleanup(sessionRecordings, currentSessionId[s])
          /\ UNCHANGED discPc
     ELSE UNCHANGED <<sessionAudioBuffers, sessionRecordings, discPc>>
  /\ UNCHANGED <<clockVars, socketIp, intakeRateMap, sessionObj, nextClient, startLog, sockErr,
                 turns, interviewVars, dbVars, intakeAudioBuffers, recordingHeap, sttCalls,
                 audioLog, nextChunk>>

\* socket.ts 265-269: mkdir is done, the array is concatenated as it is now; up to
\* the await of writeFile
DisconnectConcat(s) ==
  /\ discPc[s].pc = "mkdir"
  /\ discPc' = [discPc EXCEPT ![s] =
       [@ EXCEPT !.pc = "write", !.audio = recordingHeap[discPc[s].recording]]]
  /\ UNCHANGED <<clockVars, sockVars, registryVars, sockErr, turns, interviewVars, dbVars,
                 intakeAudioBuffers, sessionAudioBuffers, recVars, sttCalls, audioLog, nextChunk>>

\* socket.ts 269-287: the file is written and the artifact inserted (or mkdir,
\* writeFile or the insert throws, which the catch logs), then the cleanup
DisconnectSaved(s, ok) ==
  /\ discPc[s].pc \in {"mkdir", "write"}
  /\ ok => discPc[s].pc = "write"
  /\ artifacts' =
       IF ok THEN Append(artifacts, [caseId |-> currentCaseId[s], session |-> discPc[s].session,
                                     audio |-> discPc[s].audio])
       ELSE artifacts
  /\ sessionAudioBuffers' = Cleanup(sessionAudioBuffers, discPc[s].session)
  /\ sessionRecordings' = Cleanup(sessionRecordings, discPc[s].session)
  /\ discPc' = [discPc EXCEPT ![s] = NoSave]
  /\ UNCHANGED <<clockVars, sockVars, registryVars, sockErr, turns, interviewVars, transcripts,
                 prdVersions, patches, intakeAudioBuffers, recordingHeap, sttCalls, audioLog,
                 nextChunk>>

\* ------------------------------------------------- the streamed response
\* A chunk's delta: content is its content string, tool_calls its fragments.  A
\* string is the sequence of the pieces it was sent in; a fragment's index is
\* Undefined when the chunk carries none.  The id of a call is its place in toolCallsRaw.
Undefined == -1
Fragment(index, name, arguments) == [index |-> index, name |-> name, arguments |-> arguments]
Delta(content, tool_calls) == [content |-> content, tool_calls |-> tool_calls]
EmptyRaw == [name |-> <<>>, arguments |-> <<>>]

\* a faulty accumulation: a fragment's name replaces the name instead of extending it
AccumFragmentOverwriting(toolCallsRaw, tc) ==
  IF tc.index = Undefined THEN toolCallsRaw
  ELSE LET padded == IF Len(toolCallsRaw) <= tc.index
                     THEN [k \in 1..(tc.index + 1) |->
                             IF k <= Len(toolCallsRaw) THEN toolCallsRaw[k] ELSE EmptyRaw]
                     ELSE toolCallsRaw
       IN [padded EXCEPT ![tc.index + 1] =
             [name |-> IF tc.name # <<>> THEN tc.name ELSE @.name,
              arguments |-> @.arguments \o tc.arguments]]

\* agent.ts 127-134, intake-agent.ts 121-128: one fragment of delta.tool_calls
AccumFragment(toolCallsRaw, tc) ==
  IF tc.index = Undefined THEN toolCallsRaw
  ELSE LET padded == IF Len(toolCallsRaw) <= tc.index
                     THEN [k \in 1..(tc.index + 1) |->
                             IF k <= Len(toolCallsRaw) THEN toolCallsRaw[k] ELSE EmptyRaw]
                     ELSE toolCallsRaw
       IN [padded EXCEPT ![tc.index + 1] =
             [name |-> @.name \o tc.name, arguments |-> @.arguments \o tc.arguments]]

RECURSIVE AccumFragments(_, _, _)
AccumFragments(toolCallsRaw, tool_calls, n) ==
  IF n > Len(tool_calls) THEN toolCallsRaw
  ELSE AccumFragments(AccumFragment(toolCallsRaw, tool_calls[n]), tool_calls, n + 1)

\* agent.ts 116-137, intake-agent.ts 110-131: the chunks of one stream, in arrival order
RECURSIVE Accumulate(_)
Accumulate(deltas) ==
  IF Len(deltas) = 0 THEN [content |-> <<>>, toolCallsRaw |-> <<>>]
  ELSE LET acc == Accumulate(SubSeq(deltas, 1, Len(deltas) - 1))
           delta == deltas[Len(deltas)]
       IN [content |-> acc.content \o delta.content,
           toolCallsRaw |-> AccumFragments(acc.toolCallsRaw, delta.tool_calls, 1)]

\* the name a name string spells
ToolName(name) ==
  IF name = <<>> THEN ""
  ELSE IF name = <<"update_", "intake">> THEN "update_intake"
  ELSE IF name = <<"update_", "prd_section">> THEN "update_prd_section"
  ELSE "no_such_tool"

\* JSON.parse of an argument string: "{" "}" is the empty object, "{" "p" "}" the
\* object with the one property a tool of the turn takes, any other string throws
JsonOf(kind, arguments) ==
  IF arguments = <<"{", "}">> THEN Args(NoArgs)
  ELSE IF arguments = <<"{", "p", "}">>
  THEN IF kind = "intake" THEN UpdPain.args ELSE PrdBackground.args
  ELSE Malformed

\* the response of a turn's current stream, as IntakeRespond and AgentRespond take it
\* (its content chunks have been passed to onStream as they came)
StreamOf(tr) == [n \in 1..Len(SelectSeq(tr.stream, LAMBDA e : e.i = tr.i)) |->
                   SelectSeq(tr.stream, LAMBDA e : e.i = tr.i)[n].delta]
Streamed(tr) ==
  [text |-> FALSE,
   calls |-> [n \in 1..Len(Accumulate(StreamOf(tr)).toolCallsRaw) |->
                Call(ToolName(Accumulate(StreamOf(tr)).toolCallsRaw[n].name),
                     JsonOf(tr.kind, Accumulate(StreamOf(tr)).toolCallsRaw[n].arguments))]]

\* agent.ts 116-137, intake-agent.ts 110-131: one chunk of the stream arrives
StreamChunk(t, delta) ==
  /\ t \in DOMAIN turns
  /\ turns[t].pc = "model"
  /\ turns' = [turns EXCEPT ![t] =
       [@ EXCEPT !.stream = Append(@, [i |-> turns[t].i, delta |-> delta]),
                 !.out = IF delta.content # <<>> THEN Append(@, "stream") ELSE @]]
  /\ UNCHANGED <<clockVars, sockVars, registryVars, sockErr, interviewVars, dbVars, audioVars>>

\* agent.ts 140-162, intake-agent.ts 134-158: the stream ends
StreamEnd(t) ==
  /\ t \in DOMAIN turns
  /\ IntakeRespond(t, Streamed(turns[t])) \/ AgentRespond(t, Streamed(turns[t]))

\* ----------------------------------------------------------- specifications
InFlight(t) == turns[t].pc \notin {"done", "failed"}
TurnsInFlight == {t \in DOMAIN turns : InFlight(t)}

\* The responses the model may stream: up to slots tool-call slots, each one of
\* kinds; a response that ends the turn comes with text or without, as texts says.
Responses(kinds, slots, texts) ==
  {r \in [text : BOOLEAN, calls : UNION {[1..n -> kinds] : n \in 0..slots}] :
     IF NoToolCalls(r.calls) THEN r.text \in texts ELSE ~r.text}

\* the steps of an intake turn in flight, the model answering with such calls
IntakeStep(t, kinds, slots, texts) ==
  \/ \E resp \in Responses(kinds, slots, texts) : IntakeRespond(t, resp)
  \/ \E partial \in texts : IntakeFail(t, partial)

\* the steps of an interview turn in flight, the model answering with such calls
AgentStep(t, kinds, slots, texts) ==
  \/ SaveUser(t)
  \/ \E id \in 1..MaxTurns : LoadPrd(t, id)
  \/ LoadNoPrd(t)
  \/ CreatePrd(t)
  \/ \E resp \in Responses(kinds, slots, texts) : AgentRespond(t, resp)
  \/ AgentTool(t)
  \/ AgentToolFail(t)
  \/ \E partial \in texts : AgentFail(t, partial)
  \/ SaveAgent(t)

\* the behaviour has intake turns only, or interview turns only (the two kinds of
\* session share no state)
OnlyIntake == (\A s \in Sockets : ~Joined(s)) /\ (\A t \in DOMAIN turns : turns[t].kind = "intake")
OnlyInterview == nextClient = 1 /\ (\A t \in DOMAIN turns : turns[t].kind = "interview")

\* the events of one client that start sessions and turns, at most max turns in a
\* behaviour (a turn is the same code whichever socket of the session sent the message)
TurnEvents(s, max) ==
  \/ Connect(s, "ip1")
  \/ OnlyIntake /\ Len(startLog) < max /\ IntakeStart(s)
  \/ OnlyIntake /\ Len(turns) < max /\ IntakeMessage(s)
  \/ OnlyInterview /\ ~Joined(s) /\ JoinSession(s, 1, 1)
  \/ JoinLoaded(s)
  \/ OnlyInterview /\ Len(turns) < max /\ ChatMessage(s)

\* SpecTurns: up to MaxTurns turns, any number of them in flight at once; the model
\* of interview turn t updates section t of the draft
NextTurns ==
  \/ TurnEvents("s1", MaxTurns)
  \/ \E t \in 1..MaxTurns : IntakeStep(t, {Unnamed, UpdPain}, MaxTurnCalls, {TRUE})
  \/ \E t \in 1..MaxTurns : AgentStep(t, {PrdUpdate(PRD_SECTION_KEYS[t])}, MaxTurnCalls, {TRUE})

SpecTurns == Init /\ [][NextTurns]_vars

\* SpecLoop: MaxIntakeTurns intake turns, or MaxLoopTurns interview turns one after
\* the other; the model answers with more kinds of call (in the interview, in the
\* last turn, the earlier ones getting a plain reply)
LoopEvents(s) ==
  \/ Connect(s, "ip1")
  \/ OnlyIntake /\ Len(startLog) < MaxIntakeTurns /\ IntakeStart(s)
  \/ OnlyIntake /\ Len(turns) < MaxIntakeTurns /\ IntakeMessage(s)
  \/ OnlyInterview /\ ~Joined(s) /\ JoinSession(s, 1, 1)
  \/ JoinLoaded(s)
  \/ OnlyInterview /\ Len(turns) < MaxLoopTurns /\ TurnsInFlight = {} /\ ChatMessage(s)

LoopStep(t) ==
  \/ IntakeStep(t, {Unnamed, UnknownTool, UpdPain, MarkComplete}, MaxCalls, BOOLEAN)
  \/ AgentStep(t, IF t = MaxLoopTurns THEN {Unnamed, PrdBackground} ELSE {},
                  MaxCalls, IF t = MaxLoopTurns THEN BOOLEAN ELSE {TRUE})

NextLoop ==
  \/ LoopEvents("s1")
  \/ \E t \in 1..MaxLoopTurns : LoopStep(t)

SpecLoop == Init /\ [][NextLoop]_vars

\* FairLoop: SpecLoop where every awaited operation of a turn settles: each model
\* stream ends (with a response or with a failure) and each database call returns,
\* after which the event loop runs the handler's continuation
FairLoop == SpecLoop /\ \A t \in 1..MaxLoopTurns : WF_vars(LoopStep(t))

\* SpecDocs: the writers of the documents: an intake turn, or interview turns one
\* after the other (the last of them calling tools) with a manual edit of the
\* draft at any moment; the calls are well and ill formed, in the first
\* MaxRichIterations iterations of a turn
IntakeDocKinds == {UnknownTool, UpdTwo, UpdBlank, UpdMalformed, UpdBadKey, MarkNoSummary}
AgentDocKinds == {UnknownTool, PrdBackground, PrdBlank, PrdBadKey, PrdMalformed, Summarize}
Rich(t, kinds) ==
  IF t \in DOMAIN turns /\ turns[t].i < MaxRichIterations
       /\ (turns[t].kind = "interview" => t = MaxLoopTurns)
  THEN kinds ELSE {}

DocStep(t) ==
  \/ IntakeStep(t, Rich(t, IntakeDocKinds), MaxCalls, {TRUE})
  \/ AgentStep(t, Rich(t, AgentDocKinds), MaxCalls, {TRUE})

PatchStep(p) ==
  \/ \E id \in 1..MaxTurns : PatchSelect(p, id)
  \/ PatchNoDraft(p)
  \/ PatchUpdate(p)
  \/ PatchFail(p)

NextDocs ==
  \/ LoopEvents("s1")
  \/ \E t \in 1..MaxLoopTurns : DocStep(t)
  \/ \E key \in {"", "users", "no_such_section"}, content \in {Text, Blank} :
       OnlyInterview /\ Len(patches) < MaxPatches /\ PatchDraft(1, key, content)
  \/ \E p \in 1..MaxPatches : PatchStep(p)

SpecDocs == Init /\ [][NextDocs]_vars

\* SpecSessions: two clients start intake sessions or join the interview sessions
\* of case 1, send messages one turn after the other, and leave at any moment
NextSessions ==
  \/ \E s \in Sockets : Connect(s, "ip1")
  \/ \E s \in Sockets : ~Joined(s) /\ Len(startLog) < MaxSessionStarts /\ IntakeStart(s)
  \/ \E s \in Sockets, x \in SessionIds :
       ~Joined(s) /\ intakeClientId[s] = 0 /\ JoinSession(s, x, 1)
  \/ \E s \in Sockets : JoinLoaded(s)
  \/ \E s \in Sockets :
       intakeClientId[s] # 0 /\ Len(turns) < MaxTurns /\ TurnsInFlight = {} /\ IntakeMessage(s)
  \/ \E s \in Sockets :
       Joined(s) /\ Len(turns) < MaxTurns /\ TurnsInFlight = {} /\ ChatMessage(s)
  \/ \E t \in 1..MaxTurns : IntakeStep(t, {UpdPain}, MaxTurnCalls, {TRUE})
  \/ \E t \in 1..MaxTurns : AgentStep(t, {PrdBackground}, MaxTurnCalls, {TRUE})
  \/ \E s \in Sockets : Disconnect(s)

SpecSessions == Init /\ [][NextSessions]_vars

\* SpecLeave: one client with an intake turn, or with interview turns one after the
\* other (the last of them calling a tool), who leaves at any moment
LeaveStep(t) ==
  \/ IntakeStep(t, {UpdPain}, MaxTurnCalls, {TRUE})
  \/ AgentStep(t, IF t = MaxLoopTurns THEN {PrdBackground} ELSE {}, MaxTurnCalls, {TRUE})

NextLeave ==
  \/ LoopEvents("s1")
  \/ \E t \in 1..MaxLoopTurns : LeaveStep(t)
  \/ Disconnect("s1")

SpecLeave == Init /\ [][NextLeave]_vars

\* FairLeave: SpecLeave where every awaited operation of a turn settles
FairLeave == SpecLeave /\ \A t \in 1..MaxLoopTurns : WF_vars(LeaveStep(t))

\* SpecStream: one intake turn, or interview turns one after the other, whose
\* responses arrive chunk by chunk (in the interview, those of the last turn), at
\* most MaxDeltas chunks in a turn, in its first MaxRichIterations streams
Second(kind) == IF kind = "intake" THEN <<"intake">> ELSE <<"prd_section">>
Fragments(kind) ==
  {Fragment(index, part[1], part[2]) :
     index \in {Undefined} \cup 0..MaxIndex,
     part \in {<<<<"update_">>, <<>>>>, <<Second(kind), <<>>>>, <<<<>>, <<"{">>>>,
               <<<<>>, <<"p", "}">>>>, <<<<"update_">>, <<"{">>>>,
               <<Second(kind), <<"p", "}">>>>}}
Deltas(kind) ==
  {Delta(<<"c">>, <<>>)} \cup {Delta(<<>>, <<tc>>) : tc \in Fragments(kind)}
    \cup {Delta(<<"c">>, <<Fragment(1, <<"update_">>, <<>>), Fragment(0, <<"update_">>, <<"{">>)>>)}

Streaming(t) ==
  /\ t \in DOMAIN turns
  /\ Len(turns[t].stream) < MaxDeltas /\ turns[t].i < MaxRichIterations
  /\ turns[t].kind = "interview" => t = MaxLoopTurns

StreamStep(t) ==
  \/ \E delta \in Deltas(IF t \in DOMAIN turns THEN turns[t].kind ELSE "intake") :
       Streaming(t) /\ StreamChunk(t, delta)
  \/ StreamEnd(t)
  \/ SaveUser(t)
  \/ \E id \in 1..MaxTurns : LoadPrd(t, id)
  \/ LoadNoPrd(t)
  \/ CreatePrd(t)
  \/ AgentTool(t)
  \/ SaveAgent(t)

NextStream ==
  \/ LoopEvents("s1")
  \/ \E t \in 1..MaxLoopTurns : StreamStep(t)

SpecStream == Init /\ [][NextStream]_vars

\* SpecTyping: SpecLoop where the insert of the agent's transcript line may fail too
NextTyping ==
  \/ LoopEvents("s1")
  \/ \E t \in 1..MaxLoopTurns : LoopStep(t)
  \/ \E t \in 1..MaxLoopTurns : SaveAgentFail(t)

SpecTyping == Init /\ [][NextTyping]_vars

\* SpecAdmission: clients of two addresses start intake sessions while the clock
\* advances, by a minute or by the length of the admission window
NextAdmission ==
  \/ \E s \in Sockets, ip \in IPs : Connect(s, ip)
  \/ \E s \in Sockets : Len(startLog) < MaxStarts /\ IntakeStart(s)
  \/ \E d \in {1, RATE_WINDOW} : ticks < MaxTicks /\ Tick(d)

SpecAdmission == Init /\ [][NextAdmission]_vars

\* SpecSweep: two clients, each with one intake session, talk and leave while the
\* clock advances, by a minute or by the TTL, and the sweep runs
NextSweep ==
  \/ \E s \in Sockets : Connect(s, "ip1")
  \/ \E s \in Sockets : intakeClientId[s] = 0 /\ IntakeStart(s)
  \/ \E d \in {1, SESSION_TTL_MS} : ticks < MaxTicks /\ Tick(d)
  \/ Sweep
  \/ \E s \in Sockets : Len(turns) < MaxIntakeTurns /\ IntakeMessage(s)
  \/ \E t \in 1..MaxIntakeTurns : IntakeStep(t, {}, 0, {TRUE})
  \/ \E s \in Sockets : Disconnect(s)

SpecSweep == Init /\ [][NextSweep]_vars

\* SpecQuota: one intake session used up to its turn quota and beyond, one turn
\* after the other; the model calls tools in the first turn only
NextQuota ==
  \/ Connect("s1", "ip1")
  \/ intakeClientId["s1"] = 0 /\ IntakeStart("s1")
  \/ Len(turns) < MaxSeqTurns /\ TurnsInFlight = {} /\ IntakeMessage("s1")
  \/ \E t \in 1..MaxSeqTurns :
       IntakeStep(t, IF t = 1 THEN {UpdPain} ELSE {}, MaxTurnCalls, {TRUE})

SpecQuota == Init /\ [][NextQuota]_vars

\* SpecBurst: one intake session used up to its turn quota and beyond; near the
\* quota the client sends its messages without waiting for the replies, at most
\* MaxInFlight turns being in flight at once; the model calls tools in the first
\* turn only
BurstFrom == INTAKE_MAX_TURNS - MaxInFlight
NextBurst ==
  \/ Connect("s1", "ip1")
  \/ intakeClientId["s1"] = 0 /\ IntakeStart("s1")
  \/ /\ Len(turns) < MaxSeqTurns
     /\ Cardinality(TurnsInFlight) < (IF Len(turns) < BurstFrom THEN 1 ELSE MaxInFlight)
     /\ IntakeMessage("s1")
  \/ \E t \in 1..MaxSeqTurns :
       IntakeStep(t, IF t = 1 THEN {UpdPain} ELSE {}, MaxTurnCalls, {TRUE})

SpecBurst == Init /\ [][NextBurst]_vars

\* SpecAudio: two sockets of one client (the second its reconnection) record in
\* interview session 1 or in their intake sessions, stop, and disconnect
Stops == Cardinality({n \in 1..Len(audioLog) : audioLog[n].op = "stop"})

NextAudio ==
  \/ \E s \in Sockets : Connect(s, "ip1")
  \/ \E s \in Sockets : ~Joined(s) /\ intakeClientId[s] = 0 /\ JoinSession(s, 1, 1)
  \/ \E s \in Sockets : JoinLoaded(s)
  \/ \E s \in Sockets : ~Joined(s) /\ intakeClientId[s] = 0 /\ IntakeStart(s)
  \/ \E s \in Sockets : nextChunk <= MaxChunks /\ AudioChunk(s)
  \/ \E s \in Sockets : Stops < MaxStops /\ AudioStop(s)
  \/ \E s \in Sockets : nextChunk <= MaxChunks /\ IntakeAudioChunk(s)
  \/ \E s \in Sockets : Stops < MaxStops /\ IntakeAudioStop(s)
  \/ \E n \in 1..MaxStops, text \in BOOLEAN : SttDone(n, text)
  \/ \E s \in Sockets : Disconnect(s)
  \/ \E s \in Sockets : DisconnectConcat(s)
  \/ \E s \in Sockets, ok \in BOOLEAN : DisconnectSaved(s, ok)

SpecAudio == Init /\ [][NextAudio]_vars

\* ------------------------------------------------------------------ claims
\* the conversation history a turn's session holds
HistoryOf(tr) ==
  IF tr.kind = "intake" THEN sessionObj[tr.sid].messages
  ELSE GetOr(sessionHistories, tr.sid, <<>>)
\* the entries of that history that turn t appended
EntriesOf(t) == {n \in 1..Len(HistoryOf(turns[t])) : HistoryOf(turns[t])[n].turn = t}
EndsWith(seq, tail) ==
  Len(seq) >= Len(tail) /\ SubSeq(seq, Len(seq) - Len(tail) + 1, Len(seq)) = tail
MaxIterations(tr) ==
  IF tr.kind = "intake" THEN MAX_TOOL_ITERATIONS_INTAKE ELSE MAX_TOOL_ITERATIONS
Fallback(tr) == IF tr.kind = "intake" THEN IntakeFallback ELSE AgentFallback
\* the sections of the document a turn works on
SectionsOf(tr) ==
  IF tr.kind = "intake" THEN sessionObj[tr.sid].data ELSE prdVersions[tr.prd.id].sections
DocumentOf(session) ==
  [data |-> session.data, isComplete |-> session.isComplete, summary |-> session.summary,
   completeness |-> calcIntakeCompleteness(session.data)]

\* C1: turns of one session are serialized: at most one turn of a session is in
\* flight at a time (a message that arrives during a turn is queued or rejected).
C1_TurnsSerialized ==
  \A t1, t2 \in DOMAIN turns :
    (t1 < t2 /\ turns[t1].kind = turns[t2].kind /\ turns[t1].sid = turns[t2].sid
       /\ InFlight(t1)) => ~InFlight(t2)

\* C2: when the model backend call throws in any iteration of a turn, the turn is
\* aborted, the session's history holds no entry of the turn (neither its user
\* message nor an assistant entry), and the last events sent are the typing
\* indicator going off and the error.
C2_BackendFailureAborts ==
  \A t \in DOMAIN turns :
    turns[t].thrown = "model" =>
      /\ turns[t].pc = "failed" /\ turns[t].reply = Null
      /\ EntriesOf(t) = {}
      /\ EndsWith(turns[t].out, <<"typing_off", "error">>)

\* a backend failure in a later iteration, after tool calls, of a session with history
C2_Witness ==
  \E t \in DOMAIN turns :
    /\ turns[t].thrown = "model" /\ turns[t].i >= 1 /\ turns[t].applied # {}
    /\ Len(HistoryOf(turns[t])) = 2

\* the first responses without a tool call: no entry, or entries with empty names
PlainResponses == [text : BOOLEAN, calls : {<<>>, <<Unnamed>>}]

C3_Intake(t, resp) ==
  (turns[t].kind = "intake" /\ turns[t].i = 0 /\ IntakeRespond(t, resp)) =>
     LET c == turns[t].sid
     IN /\ sessionObj'[c].messages =
             sessionObj[c].messages \o <<UserMsg(t), ReplyMsg(t, "plain")>>
        /\ DocumentOf(sessionObj'[c]) = DocumentOf(sessionObj[c])
        /\ turns'[t].pc = "done"

C3_Interview(t, resp) ==
  (turns[t].kind = "interview" /\ turns[t].i = 0 /\ AgentRespond(t, resp)) =>
     /\ turns'[t].pc = "save_agent" /\ turns'[t].reply = "plain"
     /\ UNCHANGED <<sessionHistories, prdVersions>>

C3_Saved(t) ==
  (turns[t].kind = "interview" /\ turns[t].i = 0 /\ SaveAgent(t)) =>
     /\ sessionHistories'[turns[t].sid] =
          sessionHistories[turns[t].sid] \o <<UserMsg(t), ReplyMsg(t, "plain")>>
     /\ UNCHANGED prdVersions

IsDeclaration(m) == m.role = "assistant" /\ "calls" \in DOMAIN m
\* from index k on, the context is declarations, each followed by one result per
\* declared call, in the calls' ascending index order
RECURSIVE Answered(_, _)
Answered(messages, k) ==
  IF k > Len(messages) THEN TRUE
  ELSE LET m == messages[k]
           N == Len(m.calls)
       IN /\ IsDeclaration(m)
          /\ N >= 1 /\ k + N <= Len(messages)
          /\ \A j \in 1..N : messages[k + j].role = "tool" /\ messages[k + j].id = m.calls[j].id
          /\ \A j \in 1..(N - 1) : m.calls[j].id < m.calls[j + 1].id
          /\ Answered(messages, k + N + 1)
UserIdx(t) == CHOOSE k \in 1..Len(turns[t].messages) : turns[t].messages[k] = UserMsg(t)
NamedIdx(toolCallsRaw) == {n \in 1..Len(toolCallsRaw) : toolCallsRaw[n].name # ""}

\* C4: at every model invocation after the first, and when the turn returns its
\* reply, each assistant message that declares N named calls is followed in the
\* context by exactly N tool results, one per call, in ascending index order; while
\* the calls of a response are being executed the declaration names exactly the
\* response's named calls and the results so far are those of the lower indexes.
C4_ToolResultsInOrder ==
  \A t \in DOMAIN turns :
    LET tr == turns[t]
    IN /\ (tr.pc \in {"save_agent", "done"} \/ (tr.pc = "model" /\ tr.invoked # <<>>)
             \/ tr.thrown = "model")
            => Answered(tr.messages, UserIdx(t) + 1)
       /\ tr.pc = "tool" =>
            \E k \in 1..Len(tr.messages) :
              /\ IsDeclaration(tr.messages[k])
              /\ \A j \in 1..(Len(tr.messages) - k) : tr.messages[k + j].role = "tool"
              /\ {c.id : c \in Range(tr.messages[k].calls)} = NamedIdx(tr.calls)
              /\ Len(tr.messages[k].calls) = Cardinality(NamedIdx(tr.calls))
              /\ Answered(SubSeq(tr.messages, 1, k - 1), UserIdx(t) + 1)
              /\ [j \in 1..(Len(tr.messages) - k) |-> tr.messages[k + j].id]
                   = [j \in 1..(Len(tr.messages) - k) |-> tr.messages[k].calls[j].id]
              /\ \A j \in 1..(Len(tr.messages) - k) : tr.messages[k + j].id < tr.n

\* a second invocation whose context answers a response of two named calls
C4_Witness ==
  \E t \in DOMAIN turns :
    /\ turns[t].pc = "model" /\ turns[t].i >= 1
    /\ \E k \in 1..Len(turns[t].messages) :
         IsDeclaration(turns[t].messages[k]) /\ Len(turns[t].messages[k].calls) = 2

\* the responses of the turn that declared a named tool call
Declarations(tr) == Cardinality({k \in 1..Len(tr.messages) : IsDeclaration(tr.messages[k])})

\* C5: a turn that has ended after MAX_ITERATIONS responses with a named tool call
\* each has returned the fallback reply, and every section its tool calls wrote is
\* still filled in the document.
C5_FallbackKeepsMutations ==
  \A t \in DOMAIN turns :
    LET tr == turns[t]
    IN (Declarations(tr) = MaxIterations(tr) /\ tr.pc \in {"save_agent", "done", "failed"}) =>
         /\ tr.reply = Fallback(tr)
         /\ \A k \in tr.applied : SectionsOf(tr)[k] # Empty

Ended(t) ==
  \/ turns[t].pc = "done" /\ turns[t].reply \in {"plain", Fallback(turns[t])}
  \/ turns[t].pc = "failed"

\* every invocation of the model so far: iteration k - 1 is the k-th, with the
\* tools attached exactly when it is not the last allowed iteration
C6_Invocations ==
  \A t \in DOMAIN turns :
    LET tr == turns[t]
    IN /\ Len(tr.invoked) <= MaxIterations(tr)
       /\ \A k \in 1..Len(tr.invoked) :
            /\ tr.invoked[k].i = k - 1
            /\ tr.invoked[k].tools = (k - 1 < MaxIterations(tr) - 1)

\* C6: the tools are attached to a model invocation iff its iteration index is
\* below MAX_ITERATIONS - 1, a turn invokes the model at most MAX_ITERATIONS times
\* (5 interview, 3 intake), and, every model stream ending, every turn ends with a
\* plain reply, the fallback reply or an error.
C6_BoundedLoop ==
  /\ []C6_Invocations
  /\ \A t \in 1..MaxLoopTurns : [](t \in DOMAIN turns => <>(t \in DOMAIN turns /\ Ended(t)))

\* a turn has made its last allowed invocation, without tools, and got a reply
C6_Witness ==
  \E t \in DOMAIN turns :
    LET tr == turns[t]
    IN /\ tr.pc = "done" /\ tr.reply = "plain"
       /\ Len(tr.invoked) = MaxIterations(tr)
       /\ ~tr.invoked[Len(tr.invoked)].tools

\* the earlier intakeStart events of the address of the n-th
EarlierStarts(n) == {m \in 1..(n - 1) : startLog[m].ip = startLog[n].ip}
MaxOf(S) == CHOOSE x \in S : \A y \in S : y <= x
\* the intakeStart that opened the window the n-th falls in: the address's first,
\* or the first that came after the resetAt of the window before
RECURSIVE WindowOf(_)
WindowOf(n) ==
  IF EarlierStarts(n) = {} THEN n
  ELSE LET w == WindowOf(MaxOf(EarlierStarts(n)))
       IN IF startLog[n].at > startLog[w].at + RATE_WINDOW THEN n ELSE w
EarlierInWindow(n) == {m \in EarlierStarts(n) : WindowOf(m) = WindowOf(n)}
Created == {startLog[n].session : n \in 1..Len(startLog)} \ {0}

\* C7: per address, the first 3 intakeStart events of a window each create a
\* session; every further one of the window is rejected with the rate-limit error
\* and creates none; one made after the window's resetAt opens a new window.
C7_Admission ==
  /\ \A n \in 1..Len(startLog) :
       IF Cardinality(EarlierInWindow(n)) < INTAKE_MAX_SESSIONS_PER_HOUR
       THEN startLog[n].session # 0 /\ startLog[n].error = Null
       ELSE startLog[n].session = 0 /\ startLog[n].error = RateLimitMsg
  /\ Created = 1..(nextClient - 1)
  /\ Cardinality(Created) = Cardinality({n \in 1..Len(startLog) : startLog[n].session # 0})

\* one address: three sessions, the fourth start of the window rejected, a fifth
\* start admitted after the window's resetAt
C7_Witness ==
  \E a, b, c, d, e \in 1..Len(startLog) :
    /\ a < b /\ b < c /\ c < d /\ d < e
    /\ WindowOf(b) = a /\ WindowOf(c) = a /\ WindowOf(d) = a
    /\ startLog[d].error = RateLimitMsg
    /\ startLog[e].ip = startLog[a].ip /\ WindowOf(e) = e /\ startLog[e].session # 0

\* C8: a run of the sweep removes every intake session idle for more than the
\* 5-minute TTL and none whose last activity lies within the TTL.
C8_Sweep ==
  /\ [](Swept(intakeSessions, now) =
          {c \in intakeSessions : now - sessionObj[c].lastActivity <= SESSION_TTL_MS})
  /\ [][Sweep =>
          /\ \A c \in intakeSessions :
               c \in intakeSessions' <=> now - sessionObj[c].lastActivity <= SESSION_TTL_MS
          /\ intakeSessions' \subseteq intakeSessions]_vars

\* the sweep has removed the session of a connected client, idle for more than the
\* TTL, and has kept one that was idle for less
C8_Witness ==
  \E s1, s2 \in Sockets :
    LET c1 == intakeClientId[s1]
        c2 == intakeClientId[s2]
    IN /\ connected[s1] /\ c1 # 0 /\ c1 \notin intakeSessions
       /\ now - sessionObj[c1].lastActivity > SESSION_TTL_MS
       /\ connected[s2] /\ c2 \in intakeSessions
       /\ now - sessionObj[c2].lastActivity >= 1
       /\ now - sessionObj[c2].lastActivity <= SESSION_TTL_MS

\* C9: an intakeMessage on a session whose turnCount has reached the quota of 10
\* is rejected before any model call, with the turn-quota message, which is not the
\* rate-limit message, and the session's history, document and turnCount stay as
\* they were.
C9_TurnQuota ==
  [][\A s \in Sockets :
       LET c == intakeClientId[s]
       IN (IntakeMessage(s) /\ c \in intakeSessions
             /\ sessionObj[c].turnCount >= INTAKE_MAX_TURNS) =>
            /\ sockErr'[s] = TurnQuotaMsg /\ TurnQuotaMsg # RateLimitMsg
            /\ turns' = turns
            /\ sessionObj'[c].messages = sessionObj[c].messages
            /\ DocumentOf(sessionObj'[c]) = DocumentOf(sessionObj[c])
            /\ sessionObj'[c].turnCount = sessionObj[c].turnCount]_vars

\* the message after the tenth turn has been rejected, on a session with history
\* and a filled section
C9_Witness ==
  \E s \in Sockets :
    LET c == intakeClientId[s]
    IN /\ c \in intakeSessions /\ sockErr[s] = TurnQuotaMsg
       /\ sessionObj[c].turnCount = INTAKE_MAX_TURNS /\ Len(turns) = INTAKE_MAX_TURNS
       /\ Len(sessionObj[c].messages) > 0
       /\ sessionObj[c].data["painPoints"] # Empty

AudioKeys == {InterviewKey(x) : x \in SessionIds} \cup {IntakeKey(s) : s \in Sockets}
PendingOf(key) ==
  IF key.kind = "interview" THEN Pending(key.session) ELSE intakeAudioBuffers[key.socket]
\* the runs of chunks of one key that a stop has closed, in the log from entry n
\* on, cur being the run that is open at entry n
RECURSIVE Utterances(_, _, _)
Utterances(key, n, cur) ==
  IF n > Len(audioLog) THEN <<>>
  ELSE LET e == audioLog[n]
       IN IF e.key # key THEN Utterances(key, n + 1, cur)
          ELSE IF e.op = "chunk" THEN Utterances(key, n + 1, Append(cur, e.chunk))
          ELSE IF cur = <<>> THEN Utterances(key, n + 1, <<>>)
          ELSE <<cur>> \o Utterances(key, n + 1, <<>>)
\* the buffers handed to transcription for one key, in order
Transcribed(key) ==
  LET OfKey(c) == c.key = key
      calls == SelectSeq(sttCalls, OfKey)
  IN [n \in 1..Len(calls) |-> calls[n].audio]
LastIsStop(key) ==
  \E n \in 1..Len(audioLog) :
    /\ audioLog[n].key = key /\ audioLog[n].op = "stop"
    /\ \A m \in (n + 1)..Len(audioLog) : audioLog[m].key # key

\* C10: the chunks received since the previous stop are handed to transcription
\* at the stop, in arrival order, as one buffer, exactly once, none dropped; and
\* after a stop the pending buffer is empty.
C10_OneBufferPerStop ==
  \A key \in AudioKeys :
    /\ Transcribed(key) = Utterances(key, 1, <<>>)
    /\ LastIsStop(key) => PendingOf(key) = <<>>

Last(seq) == seq[Len(seq)]
\* the tool call an interview turn is about to execute
CurrentCall(t) == turns[t].calls[turns[t].n]
\* a call that writes to a section key outside the enumeration
HasBadKey(tc) ==
  /\ tc.args.ok
  /\ \/ tc.name = "update_prd_section" /\ "sectionKey" \in DOMAIN tc.args.obj
        /\ tc.args.obj["sectionKey"] \notin PrdKeys
     \/ tc.name = "update_intake" /\ DOMAIN tc.args.obj # {}
        /\ DOMAIN tc.args.obj \cap IntakeKeys = {}

C11_Keys ==
  /\ \A id \in DOMAIN prdVersions : DOMAIN prdVersions[id].sections \subseteq PrdKeys
  /\ \A c \in ClientIds : DOMAIN sessionObj[c].data \subseteq IntakeKeys

C11_Rejected ==
  /\ \A t \in DOMAIN turns :
       (turns[t].kind = "interview" /\ turns[t].pc = "tool" /\ HasBadKey(CurrentCall(t))
          /\ AgentTool(t)) =>
         /\ prdVersions' = prdVersions
         /\ Last(turns'[t].messages).result.kind \notin {"success"}
  /\ \A t \in DOMAIN turns : \A tc \in IntakeDocKinds :
       (turns[t].kind = "intake" /\ HasBadKey(tc)
          /\ IntakeRespond(t, [text |-> FALSE, calls |-> <<tc>>])) =>
         /\ sessionObj'[turns[t].sid].data = sessionObj[turns[t].sid].data
         /\ Last(turns'[t].messages).result.kind \notin {"success"}
  /\ \A p \in DOMAIN patches :
       (patches[p].pc = "update" /\ patches[p].sectionKey \notin PrdKeys) =>
         /\ prdVersions' = prdVersions
         /\ patches'[p].pc = "done" => patches'[p].status \notin {200}

\* C11: the section keys stored in a document are all members of its enumeration
\* (13 PRD keys, 4 intake keys), and a write whose section key is not in the
\* enumeration gets an error result and leaves the document as it was.
C11_KeysInEnumeration == []C11_Keys /\ [][C11_Rejected]_vars

\* the enumeration keys whose content is non-empty after trimming
Filled(sections, keys) == {k \in keys : Trim(sections[k]) # Empty}
Pct(sections, keys) == RoundPct(Cardinality(Filled(sections, keys)), Cardinality(keys))

\* what is stored with a draft, and what a finished intake turn reports
C12_Stored ==
  /\ \A id \in DOMAIN prdVersions :
       prdVersions[id].completeness = Pct(prdVersions[id].sections, PrdKeys)
  /\ \A t \in DOMAIN turns :
       (turns[t].kind = "intake" /\ turns[t].pc = "done") =>
          turns[t].result.completeness = Pct(turns[t].result.data, IntakeKeys)

\* what the result of a writing tool call reports
C12_Reported ==
  /\ \A t \in DOMAIN turns :
       (turns[t].kind = "interview" /\ turns[t].pc = "tool" /\ IsPrdWrite(CurrentCall(t))
          /\ AgentTool(t)) =>
         /\ Last(turns'[t].messages).result.completeness
              = Pct(prdVersions'[turns[t].prd.id].sections, PrdKeys)
         /\ prdVersions'[turns[t].prd.id].completeness
              = Pct(prdVersions'[turns[t].prd.id].sections, PrdKeys)
  /\ \A t \in DOMAIN turns :
       (turns[t].kind = "intake" /\ turns[t].pc = "model" /\ turns'[t].pc = "model"
          /\ turns'[t].i > turns[t].i
          /\ Last(turns'[t].messages).result.completeness >= 0) =>
         Last(turns'[t].messages).result.completeness
           = Pct(sessionObj'[turns[t].sid].data, IntakeKeys)

\* filling more sections does not lower the completeness
C12_Monotone ==
  /\ \A id \in DOMAIN prdVersions :
       Filled(prdVersions[id].sections, PrdKeys) \subseteq Filled(prdVersions'[id].sections, PrdKeys)
         => prdVersions'[id].completeness >= prdVersions[id].completeness
  /\ \A c \in ClientIds :
       Filled(sessionObj[c].data, IntakeKeys) \subseteq Filled(sessionObj'[c].data, IntakeKeys)
         => Pct(sessionObj'[c].data, IntakeKeys) >= Pct(sessionObj[c].data, IntakeKeys)

\* C12: after every document mutation the completeness stored or reported is
\* round(100 * filled / total) of the sections as they are after the mutation,
\* filled counting the enumeration keys with non-blank content (total 13 for the
\* PRD, 4 for intake), and it does not decrease when more sections are filled.
C12_Completeness == []C12_Stored /\ [][C12_Reported /\ C12_Monotone]_vars

\* a draft with one section filled and one of white space only stores 8, after a
\* tool call reported 8 for it
C12_Witness ==
  \E id \in DOMAIN prdVersions : \E t \in DOMAIN turns :
    /\ prdVersions[id].sections["background"] \notin {Empty, Blank}
    /\ prdVersions[id].sections["users"] = Blank
    /\ prdVersions[id].completeness = 8
    /\ turns[t].prd.id = id /\ turns[t].applied = {"background", "users"}
    /\ Last(turns[t].messages).role = "tool"
    /\ Last(turns[t].messages).result.completeness = 8

\* the positions of an event among the events a turn has emitted
Positions(out, e) == {n \in 1..Len(out) : out[n] = e}
Notification(tr) == IF tr.kind = "intake" THEN "data_update" ELSE "prd_updated"

\* C13: in a turn where a tool call updated a section of the document, the
\* document-changed notification (intakeDataUpdate, prdUpdated) is emitted, and it
\* is emitted before the assistant's final message of the turn.
C13_NotifyBeforeMessage ==
  \A t \in DOMAIN turns :
    LET tr == turns[t]
    IN (tr.pc = "done" /\ tr.applied # {}) =>
         /\ Positions(tr.out, Notification(tr)) # {}
         /\ \A n \in Positions(tr.out, Notification(tr)) :
              \A m \in Positions(tr.out, "message") : n < m

DeclarationsIn(messages) == {k \in 1..Len(messages) : IsDeclaration(messages[k])}
\* the calls declared by the last response of a turn that called tools
LastDeclared(tr) ==
  {c.id : c \in Range(tr.messages[MaxOf(DeclarationsIn(tr.messages))].calls)}
\* the calls of that response that have a tool-result message
LastAnswered(tr) ==
  {tr.messages[j].id : j \in (MaxOf(DeclarationsIn(tr.messages)) + 1)..Len(tr.messages)}

\* C14: when the execution of the calls of one response is over, every call of the
\* response has been executed and has its tool-result message, except a call whose
\* own dispatch failed: such a failure does not abort the calls after it.
C14_SiblingsExecuted ==
  \A t \in DOMAIN turns :
    LET tr == turns[t]
    IN (tr.pc \in {"model", "save_agent", "done", "failed"}
          /\ DeclarationsIn(tr.messages) # {}) =>
         LastDeclared(tr) \ (IF tr.thrown = "write" THEN {tr.n} ELSE {})
           \subseteq LastAnswered(tr)

\* the sections of the document that the session of turn u reads and writes
OwnedBy(u) ==
  IF turns[u].kind = "intake" THEN sessionObj[turns[u].sid].data
  ELSE IF turns[u].prd.id = 0 THEN emptySections
  ELSE prdVersions[turns[u].prd.id].sections

\* C15: a document is owned by one session: a step of a turn of one session does
\* not change the document that a different session reads and writes (intake: the
\* session's data; interview: the draft its turns have loaded).
C15_ExclusiveOwner ==
  [][\A t \in DOMAIN turns :
       turns'[t] # turns[t] =>
         \A u \in DOMAIN turns :
           (turns[u].kind = turns[t].kind /\ turns[u].sid # turns[t].sid) =>
              OwnedBy(u)' = OwnedBy(u)]_vars

\* the disconnect handler of socket s, which had joined a session, has finished,
\* and nothing else of that session is going on: no other socket has joined it,
\* no join and no turn of it is in flight
GoneFrom(s) ==
  /\ Joined(s) /\ ~connected[s] /\ discPc[s] = NoSave /\ joinPc[s] = 0
  /\ \A s2 \in Sockets \ {s} : currentSessionId[s2] # currentSessionId[s]
  /\ \A t \in TurnsInFlight :
       ~(turns[t].kind = "interview" /\ turns[t].sid = currentSessionId[s])

\* C16: when the disconnect handler of a socket that had joined an interview
\* session has finished, no in-memory record of the session remains: its history,
\* its sequence counter and its two audio buffers have been removed.
C16_RecordDestroyed ==
  \A s \in Sockets :
    GoneFrom(s) =>
      /\ ~Has(sessionHistories, currentSessionId[s])
      /\ ~Has(sessionSeqCounters, currentSessionId[s])
      /\ ~Has(sessionAudioBuffers, currentSessionId[s])
      /\ ~Has(sessionRecordings, currentSessionId[s])

\* C17: when a socket has disconnected, every intake session that was started
\* through it, by any of its intakeStart events, is gone from the registry.
C17_SessionsDeleted ==
  \A n \in 1..Len(startLog) :
    (startLog[n].session # 0 /\ ~connected[startLog[n].socket]) =>
       startLog[n].session \notin intakeSessions

\* the socket of a turn has disconnected
Left(t) == ~connected[turns[t].sock]

\* C18: a disconnect does not abort a turn in flight: the disconnect changes
\* neither the turn nor the documents, the sections the turn's tool calls wrote
\* stay filled, and, every awaited operation settling, the turn goes on to its end
\* (a reply, the fallback, or the error of a failed backend call).
C18_DisconnectKeepsTurn ==
  /\ [][\A s \in Sockets : Disconnect(s) => UNCHANGED <<turns, sessionObj, prdVersions>>]_vars
  /\ [][\A t \in DOMAIN turns :
         /\ (Left(t) /\ turns[t].kind = "interview" /\ turns[t].pc = "tool"
               /\ IsPrdWrite(CurrentCall(t)) /\ AgentTool(t)) =>
              prdVersions'[turns[t].prd.id].sections["background"] = <<t, turns[t].i, turns[t].n>>
         /\ (Left(t) /\ IntakeRespond(t, [text |-> FALSE, calls |-> <<UpdPain>>])) =>
              sessionObj'[turns[t].sid].data["painPoints"] = <<t, turns[t].i, 1>>]_vars
  /\ [](\A t \in DOMAIN turns :
          Left(t) => \A k \in turns[t].applied : SectionsOf(turns[t])[k] # Empty)
  /\ \A t \in 1..MaxLoopTurns :
       [](t \in DOMAIN turns /\ Left(t) => <>(t \in DOMAIN turns /\ ~InFlight(t)))

\* the socket has left and the turn is about to execute a tool call that writes
C18_Witness ==
  \E t \in DOMAIN turns :
    /\ Left(t) /\ turns[t].kind = "interview" /\ turns[t].pc = "tool"
    /\ IsPrdWrite(CurrentCall(t)) /\ turns[t].applied = {}


\* ------------------------------------------------------------------------ C19
Prefix(a, b) == Len(a) <= Len(b) /\ SubSeq(b, 1, Len(a)) = a
\* socket s is connected and joined to interview session x
RecordsIn(s, x) == connected[s] /\ Joined(s) /\ currentSessionId[s] = x
ChunksOf(a) == Range(a.audio)

\* audioChunk appends the chunk to the archive of the socket's session and audioStop
\* leaves every archive as it is
C19_ChunkAndStop ==
  /\ \A s \in Sockets : AudioChunk(s) /\ Joined(s) =>
       Recording(currentSessionId[s])' = Append(Recording(currentSessionId[s]), nextChunk)
  /\ \A s \in Sockets : AudioStop(s) =>
       \A x \in SessionIds : Recording(x)' = Recording(x)

\* while a socket stays connected and joined to a session, the archive of the session
\* only grows
C19_OnlyGrows ==
  \A x \in SessionIds :
    (\E s \in Sockets : RecordsIn(s, x) /\ RecordsIn(s, x)') => Prefix(Recording(x), Recording(x)')

\* a save that succeeds stores one artifact holding the whole archive in arrival
\* order; a disconnect that finds no archive starts no save
C19_Disconnect ==
  /\ \A s \in Sockets : DisconnectSaved(s, TRUE) =>
       /\ Len(artifacts') = Len(artifacts) + 1
       /\ Last(artifacts').audio = recordingHeap[discPc[s].recording]
  /\ \A s \in Sockets :
       Disconnect(s) /\ (Joined(s) => Len(Recording(currentSessionId[s])) = 0) =>
         discPc'[s] = NoSave /\ UNCHANGED artifacts

\* no artifact is empty and no chunk is stored in two artifacts
C19_OneArtifact ==
  /\ \A n \in 1..Len(artifacts) : Len(artifacts[n].audio) > 0
  /\ \A n, m \in 1..Len(artifacts) : n # m => ChunksOf(artifacts[n]) \cap ChunksOf(artifacts[m]) = {}

\* C19: from join until disconnect the archive buffer of an interview session only
\* grows (every audio chunk is appended to it, an audio stop leaves it unchanged),
\* and at disconnect a non-empty archive is stored in arrival order as exactly one
\* artifact while an empty archive stores nothing
C19_ArchiveGrowsUntilDisconnect ==
  /\ [][C19_ChunkAndStop /\ C19_OnlyGrows /\ C19_Disconnect]_vars
  /\ []C19_OneArtifact


\* ------------------------------------------------------------------------ C20
KnownTools(kind) ==
  IF kind = "intake" THEN {"update_intake", "mark_complete"}
  ELSE {"update_prd_section", "summarize_conversation"}
IsUnknown(kind, tc) == IsNamed(tc) /\ tc.name \notin KnownTools(kind)
UnknownResult == [kind |-> "unknown_tool", completeness |-> -1]
\* the name under which the tool-result message at index j of a turn was declared
DeclaredName(messages, j) ==
  LET d == messages[MaxOf({k \in DeclarationsIn(messages) : k < j})]
  IN (CHOOSE c \in Range(d.calls) : c.id = messages[j].id).name

\* the tool-result message of a call to an unknown tool is the "Unknown tool" error
C20_Results ==
  \A t \in DOMAIN turns : \A j \in 1..Len(turns[t].messages) :
    LET m == turns[t].messages[j]
    IN m.role = "tool" /\ DeclaredName(turns[t].messages, j) \notin KnownTools(turns[t].kind) =>
         m.result = UnknownResult

\* interview: the step that executes a call to an unknown tool appends the error as
\* tool-result message, leaves the draft, its row and the summary as they are, and the
\* turn goes on with the next call or, after the last call, with the next iteration
C20_Interview ==
  \A t \in DOMAIN turns :
    AgentTool(t) /\ IsUnknown("interview", CurrentCall(t)) =>
      LET tr == turns[t]
          after == turns'[t]
          last == NextNamed(tr.calls, tr.n + 1) > Len(tr.calls)
      IN /\ UNCHANGED prdVersions
         /\ after.prd = tr.prd /\ after.summary = tr.summary
         /\ after.prdUpdated = tr.prdUpdated /\ after.applied = tr.applied
         /\ after.messages = Append(tr.messages, ToolMsg(tr.n, UnknownResult))
         /\ after.pc # "failed"
         /\ ~last => after.pc = "tool" /\ after.i = tr.i /\ after.n > tr.n
         /\ last => after.i = tr.i + 1
         /\ last /\ tr.i + 1 < MAX_TOOL_ITERATIONS =>
              after.pc = "model" /\ Len(after.invoked) = Len(tr.invoked) + 1

\* intake: a response with calls to unknown tools leaves the session's data,
\* completion flag and summary as the other calls of the response leave them, gives
\* every such call the error as tool-result message, and goes on to the next iteration
C20_Intake ==
  \A t \in DOMAIN turns : \A resp \in Responses(IntakeDocKinds, MaxCalls, {TRUE}) :
    IntakeRespond(t, resp) /\ (\E n \in DOMAIN resp.calls : IsUnknown("intake", resp.calls[n])) =>
      LET tr == turns[t]
          after == turns'[t]
          others == [n \in DOMAIN resp.calls |->
                       IF IsUnknown("intake", resp.calls[n]) THEN Unnamed ELSE resp.calls[n]]
          x == IntakeExec(sessionObj[tr.sid], <<>>, {}, others, 1, t, tr.i)
      IN /\ sessionObj'[tr.sid].data = x.session.data
         /\ sessionObj'[tr.sid].isComplete = x.session.isComplete
         /\ sessionObj'[tr.sid].summary = x.session.summary
         /\ \A n \in DOMAIN resp.calls : IsUnknown("intake", resp.calls[n]) =>
              \E j \in (Len(tr.messages) + 1)..Len(after.messages) :
                after.messages[j] = ToolMsg(n, UnknownResult)
         /\ after.pc # "failed" /\ after.i = tr.i + 1
         /\ tr.i + 1 < MAX_TOOL_ITERATIONS_INTAKE =>
              after.pc = "model" /\ Len(after.invoked) = Len(tr.invoked) + 1

\* C20: a tool call whose name is not one of the known tools yields the "Unknown
\* tool" error payload as its tool-result message, changes neither the document nor
\* the completion state, and does not abort the turn: the loop goes on to the next
\* iteration
C20_UnknownTool == []C20_Results /\ [][C20_Interview /\ C20_Intake]_vars

\* an interview turn whose only call was to an unknown tool is in its next iteration,
\* the error being the last message of its context
C20_Witness ==
  \E t \in DOMAIN turns :
    /\ turns[t].kind = "interview" /\ turns[t].pc = "model" /\ turns[t].i = 1
    /\ Last(turns[t].messages) = ToolMsg(1, UnknownResult)
    /\ Len(turns[t].messages[Len(turns[t].messages) - 1].calls) = 1


\* ------------------------------------------------------------------------ C21
\* the call with the empty map as its arguments
WithNoArgs(tc) == Call(tc.name, Args(NoArgs))
IsMalformed(tc) == IsNamed(tc) /\ ~tc.args.ok

\* interview: a turn about to execute a call with a malformed argument string next
\* executes it as the call with no arguments, appends its tool-result message, leaves
\* the draft as it is and is not aborted
C21_Interview ==
  \A t \in DOMAIN turns :
    /\ turns[t].kind = "interview" /\ turns[t].pc = "tool"
    /\ IsMalformed(CurrentCall(t)) /\ turns'[t] # turns[t]
    => LET tr == turns[t]
           after == turns'[t]
           d == AgentDispatch(tr.prd, WithNoArgs(CurrentCall(t)), <<t, tr.i, tr.n>>)
       IN /\ after.pc # "failed"
          /\ after.messages = Append(tr.messages, ToolMsg(tr.n, d.result))
          /\ d.result.kind =
               IF CurrentCall(t).name = "update_prd_section" THEN "invalid_section"
               ELSE IF CurrentCall(t).name = "summarize_conversation" THEN "success"
               ELSE "unknown_tool"
          /\ after.prd = tr.prd /\ UNCHANGED prdVersions

\* intake: a response with malformed calls is executed as the same response with
\* those calls given no arguments; every call gets its tool-result message and the
\* turn goes on
C21_Intake ==
  \A t \in DOMAIN turns : \A resp \in Responses(IntakeDocKinds, MaxCalls, {TRUE}) :
    IntakeRespond(t, resp) /\ (\E n \in DOMAIN resp.calls : IsMalformed(resp.calls[n])) =>
      LET tr == turns[t]
          after == turns'[t]
          degraded == [n \in DOMAIN resp.calls |->
                         IF IsMalformed(resp.calls[n]) THEN WithNoArgs(resp.calls[n])
                         ELSE resp.calls[n]]
          x == IntakeExec(sessionObj[tr.sid], Append(tr.messages, AssistantCalls(resp.calls)),
                          tr.applied, degraded, 1, t, tr.i)
      IN /\ sessionObj'[tr.sid].data = x.session.data
         /\ sessionObj'[tr.sid].isComplete = x.session.isComplete
         /\ sessionObj'[tr.sid].summary = x.session.summary
         /\ after.messages = x.messages
         /\ LastAnswered(after) = LastDeclared(after)
         /\ \A n \in DOMAIN resp.calls :
              IsMalformed(resp.calls[n]) /\ resp.calls[n].name = "update_intake" =>
                \E j \in 1..Len(after.messages) :
                  /\ after.messages[j].role = "tool" /\ after.messages[j].id = n
                  /\ after.messages[j].result.kind = "success"
         /\ after.pc # "failed" /\ after.i = tr.i + 1

\* C21: a tool call whose accumulated argument string is not valid JSON is dispatched
\* with the empty map as its arguments, produces a tool-result message, and the turn
\* is not aborted
C21_MalformedArguments == [][C21_Interview /\ C21_Intake]_vars

\* an interview turn has executed a malformed update_prd_section, answered it with
\* the invalid-section error, and goes on to the sibling call
C21_Witness ==
  \E t \in DOMAIN turns :
    /\ turns[t].kind = "interview" /\ turns[t].pc = "tool" /\ turns[t].n = 2
    /\ turns[t].calls[1] = PrdMalformed
    /\ Last(turns[t].messages) = ToolMsg(1, [kind |-> "invalid_section", completeness |-> -1])


\* ------------------------------------------------------------------------ C22
LoopKinds == {Unnamed, UnknownTool, UpdPain, MarkComplete}
IsMark(tc) == tc.name = "mark_complete"
\* the index of the last mark_complete of a response
LastMark(calls) == MaxOf({n \in DOMAIN calls : IsMark(calls[n])})

\* a session that is complete stays complete
C22_Terminal ==
  \A c \in 1..(nextClient - 1) : sessionObj[c].isComplete => sessionObj'[c].isComplete

\* a response with mark_complete calls, given to a session that is complete already,
\* leaves the session as its other calls leave it, the summary being that of the
\* last mark_complete
C22_Idempotent ==
  \A t \in DOMAIN turns : \A resp \in Responses(LoopKinds, MaxCalls, BOOLEAN) :
    /\ IntakeRespond(t, resp) /\ sessionObj[turns[t].sid].isComplete
    /\ \E n \in DOMAIN resp.calls : IsMark(resp.calls[n])
    => LET tr == turns[t]
           c == tr.sid
           others == [n \in DOMAIN resp.calls |->
                        IF IsMark(resp.calls[n]) THEN Unnamed ELSE resp.calls[n]]
           x == IntakeExec(sessionObj[c], <<>>, {}, others, 1, t, tr.i)
       IN /\ sessionObj'[c].isComplete
          /\ sessionObj'[c].data = x.session.data
          /\ sessionObj'[c].turnCount = sessionObj[c].turnCount
          /\ sessionObj'[c].lastActivity = sessionObj[c].lastActivity
          /\ sessionObj'[c].summary = <<t, tr.i, LastMark(resp.calls)>>
          /\ \A d \in Range(sessionObj) \ {sessionObj[c]} : d \in Range(sessionObj')

\* C22: mark_complete sets a terminal flag and is idempotent: a complete intake
\* session stays complete whatever tool calls follow, and a repeated mark_complete
\* changes nothing but the summary, which becomes the latest one
C22_MarkCompleteIdempotent == [][C22_Terminal /\ C22_Idempotent]_vars

\* a session completed in the first iteration of a turn has been completed again
\* in the second, and carries the second summary
C22_Witness ==
  \E t \in DOMAIN turns :
    /\ turns[t].kind = "intake" /\ turns[t].i = 2
    /\ sessionObj[turns[t].sid].isComplete
    /\ sessionObj[turns[t].sid].summary = <<t, 1, 1>>
    /\ \E j \in DeclarationsIn(turns[t].messages) :
         /\ j < MaxOf(DeclarationsIn(turns[t].messages))
         /\ \E c \in Range(turns[t].messages[j].calls) : c.name = "mark_complete"


\* ------------------------------------------------------------------------ C23
\* intakeMessage looks the socket's session up: a session that is registered has its
\* lastActivity set to the current time and is otherwise returned as it is
C23_Refreshed ==
  \A s \in Sockets :
    IntakeMessage(s) /\ intakeClientId[s] \in intakeSessions =>
      LET c == intakeClientId[s]
      IN /\ sessionObj'[c].lastActivity = now
         /\ sessionObj'[c].data = sessionObj[c].data
         /\ sessionObj'[c].messages = sessionObj[c].messages
         /\ sessionObj'[c].isComplete = sessionObj[c].isComplete
         /\ UNCHANGED intakeSessions

\* the lookup of an id that is not registered returns nothing: the handler answers
\* that the session has expired, and no session changes
C23_Unknown ==
  \A s \in Sockets :
    IntakeMessage(s) /\ intakeClientId[s] # 0 /\ intakeClientId[s] \notin intakeSessions =>
      /\ UNCHANGED <<sessionObj, intakeSessions, turns>>
      /\ sockErr'[s] = ExpiredMsg

\* a sweep leaves every session whose last activity is at most the TTL ago, and the
\* last activity of a session never moves back
C23_Kept ==
  /\ Sweep => \A c \in intakeSessions :
       now - sessionObj[c].lastActivity <= SESSION_TTL_MS => c \in intakeSessions'
  /\ \A c \in intakeSessions : sessionObj'[c].lastActivity >= sessionObj[c].lastActivity

\* C23: getIntakeSession on an existing id returns the session and sets its
\* lastActivity to the current time, so that a session looked up within the TTL is
\* not removed by the next sweep; the lookup of an unknown id returns nothing and
\* changes no session
C23_LookupRefreshes == [][C23_Refreshed /\ C23_Unknown /\ C23_Kept]_vars

\* a session that would be stale by the time of its creation is not, a lookup
\* having refreshed it, and is still registered
C23_Witness ==
  \E n \in 1..Len(startLog) :
    /\ startLog[n].session \in intakeSessions
    /\ now - startLog[n].at > SESSION_TTL_MS
    /\ ~IsStale(sessionObj[startLog[n].session], now)
    /\ sessionObj[startLog[n].session].turnCount = 1


\* ------------------------------------------------------------------------ C24
\* the fragments of a stream, in arrival order
RECURSIVE FragmentsOf(_)
FragmentsOf(deltas) ==
  IF Len(deltas) = 0 THEN <<>> ELSE deltas[1].tool_calls \o FragmentsOf(Tail(deltas))
\* the concatenation of the strings of a sequence
RECURSIVE Cat(_)
Cat(strings) == IF Len(strings) = 0 THEN <<>> ELSE strings[1] \o Cat(Tail(strings))
Carrying(deltas, index) == SelectSeq(FragmentsOf(deltas), LAMBDA tc : tc.index = index)
NamesOf(fragments) == [n \in 1..Len(fragments) |-> fragments[n].name]
ArgumentsOf(fragments) == [n \in 1..Len(fragments) |-> fragments[n].arguments]
IndicesOf(deltas) == {FragmentsOf(deltas)[n].index : n \in 1..Len(FragmentsOf(deltas))} \ {Undefined}

\* what the chunks received so far have been accumulated to: there is a call for
\* every index up to the largest received, and the call at an index has the names
\* and the argument strings of the fragments of that index, concatenated
C24_Accumulated ==
  \A t \in DOMAIN turns :
    LET deltas == StreamOf(turns[t])
        raw == Accumulate(deltas).toolCallsRaw
    IN /\ Len(raw) = IF IndicesOf(deltas) = {} THEN 0 ELSE MaxOf(IndicesOf(deltas)) + 1
       /\ \A index \in 0..(Len(raw) - 1) :
            /\ raw[index + 1].name = Cat(NamesOf(Carrying(deltas, index)))
            /\ raw[index + 1].arguments = Cat(ArgumentsOf(Carrying(deltas, index)))
       /\ Accumulate(deltas).content = Cat([n \in 1..Len(deltas) |-> deltas[n].content])

\* when the stream ends, the calls that are declared and executed are those of the
\* indices that received a name, under the name their fragments spell
C24_Dispatched ==
  \A t \in DOMAIN turns :
    StreamEnd(t) =>
      LET tr == turns[t]
          after == turns'[t]
          deltas == StreamOf(tr)
          named == {index \in IndicesOf(deltas) : Cat(NamesOf(Carrying(deltas, index))) # <<>>}
          spelled(index) == ToolName(Cat(NamesOf(Carrying(deltas, index))))
      IN IF named = {}
         THEN /\ after.pc \in {"done", "save_agent"}
              /\ DeclarationsIn(after.messages) = DeclarationsIn(tr.messages)
         ELSE /\ MaxOf(DeclarationsIn(after.messages)) = Len(tr.messages) + 1
              /\ Range(after.messages[MaxOf(DeclarationsIn(after.messages))].calls) =
                   {[id |-> index + 1, name |-> spelled(index)] : index \in named}
              /\ tr.kind = "intake" => LastAnswered(after) = {index + 1 : index \in named}
              /\ tr.kind = "interview" =>
                   after.pc = "tool" /\ after.n - 1 \in named
                     /\ \A index \in named : index >= after.n - 1

\* C24: for every arrival order of the fragments of a stream, the finalized call at
\* an index has as name and as argument string the concatenation, in arrival order,
\* of the name and argument fragments that carried the index, whatever fragments of
\* other indices and whatever content came in between; an index that received no
\* name has an empty name and is not dispatched
C24_Accumulation == []C24_Accumulated /\ [][C24_Dispatched]_vars

\* a call sent in two fragments with content in between has been put together and
\* executed
C24_Witness ==
  \E t \in DOMAIN turns :
    /\ StreamOf(turns[t]) = <<>> /\ Len(turns[t].stream) = 3
    /\ turns[t].stream[1].delta = Delta(<<>>, <<Fragment(0, <<"update_">>, <<"{">>)>>)
    /\ turns[t].stream[2].delta = Delta(<<"c">>, <<>>)
    /\ turns[t].stream[3].delta = Delta(<<>>, <<Fragment(0, Second(turns[t].kind), <<"p", "}">>)>>)
    /\ turns[t].applied # {}


\* ------------------------------------------------------------------------ C25
\* the turns of intake session c, failed ones included
TurnsOf(c) == {t \in DOMAIN turns : turns[t].kind = "intake" /\ turns[t].sid = c}
RECURSIVE Invocations(_)
Invocations(T) ==
  IF T = {} THEN 0
  ELSE LET t == CHOOSE t \in T : TRUE IN Len(turns[t].invoked) + Invocations(T \ {t})

\* the count of a session is the number of its admitted messages, it is within the
\* quota, and the session has caused at most quota times iterations model invocations
C25_Counted ==
  \A c \in 1..(nextClient - 1) :
    /\ sessionObj[c].turnCount = Cardinality(TurnsOf(c))
    /\ sessionObj[c].turnCount <= INTAKE_MAX_TURNS
    /\ \A t \in TurnsOf(c) : Len(turns[t].invoked) <= MAX_TOOL_ITERATIONS_INTAKE
    /\ Invocations(TurnsOf(c)) <= INTAKE_MAX_TURNS * MAX_TOOL_ITERATIONS_INTAKE

\* the count moves by one when a message is admitted and by nothing otherwise,
\* whatever becomes of the turn
C25_Once ==
  \A c \in 1..(nextClient - 1) :
    sessionObj'[c].turnCount =
      sessionObj[c].turnCount + (IF TurnsOf(c)' # TurnsOf(c) THEN 1 ELSE 0)

\* C25: for every interleaving of intakeMessage events the turnCount of an intake
\* session never exceeds the quota and is incremented exactly once for each admitted
\* message, also when the turn fails later; hence a session causes at most
\* INTAKE_MAX_TURNS * MAX_TOOL_ITERATIONS_INTAKE model invocations
C25_TurnCount == []C25_Counted /\ [][C25_Once]_vars

\* the quota is used up, the last turn having ended while the one before is still in
\* flight, a turn has failed and a message beyond the quota has been refused
C25_Witness ==
  \E c \in intakeSessions :
    /\ sessionObj[c].turnCount = INTAKE_MAX_TURNS
    /\ InFlight(INTAKE_MAX_TURNS - 1) /\ turns[INTAKE_MAX_TURNS].pc = "done"
    /\ \E t \in TurnsOf(c) : turns[t].pc = "failed"
    /\ Len(turns[1].invoked) = MAX_TOOL_ITERATIONS_INTAKE
    /\ sockErr["s1"] = TurnQuotaMsg


\* ------------------------------------------------------------------------ C26
Histories ==
  {sessionObj[c].messages : c \in 1..(nextClient - 1)} \cup Range(sessionHistories)

\* a history is made of pairs, the user message of a turn followed by the reply of
\* the same turn, no turn twice
C26_Pairs ==
  \A h \in Histories :
    /\ Len(h) % 2 = 0
    /\ \A k \in 1..Len(h) :
         /\ h[k].role = (IF k % 2 = 1 THEN "user" ELSE "assistant")
         /\ DOMAIN h[k] \cap {"calls", "id", "result"} = {}
         /\ k % 2 = 0 => h[k].turn = h[k - 1].turn /\ h[k].content = turns[h[k].turn].reply
         /\ \A j \in 1..Len(h) : j # k /\ j % 2 = k % 2 => h[j].turn # h[k].turn

\* the pairs of a history are those of the completed turns of the session: a turn
\* that failed or is in flight has none
C26_Completed ==
  \A t \in DOMAIN turns :
    turns[t].pc = "done" <=> \E k \in 1..Len(HistoryOf(turns[t])) : HistoryOf(turns[t])[k] = UserMsg(t)

\* a step adds at most one pair to a history, at its end
C26_Appended ==
  \A t \in DOMAIN turns :
    HistoryOf(turns[t])' # HistoryOf(turns[t]) =>
      \E u \in DOMAIN turns :
        HistoryOf(turns[t])' = HistoryOf(turns[t]) \o <<UserMsg(u), ReplyMsg(u, turns'[u].reply)>>

\* C26: after any sequence and interleaving of turns a session's stored history has
\* even length and alternates user, assistant: each completed turn (plain reply or
\* fallback) appends its user message and its reply together as one pair, tool-call
\* and tool-result messages are never stored in it, and a failed turn adds nothing
C26_HistoryAlternates == [](C26_Pairs /\ C26_Completed) /\ [][C26_Appended]_vars

\* two turns in flight together have completed in the reverse order of their
\* messages, the first of them with the fallback reply after calling tools
C26_Witness ==
  \E t \in DOMAIN turns :
    /\ Len(HistoryOf(turns[t])) = 4
    /\ HistoryOf(turns[t])[1] = UserMsg(2)
    /\ HistoryOf(turns[t])[3] = UserMsg(1)
    /\ HistoryOf(turns[t])[4].content \in {IntakeFallback, AgentFallback}


\* ------------------------------------------------------------------------ C27
\* C27: the transcript lines of one interview session have sequence numbers that
\* are pairwise distinct and increase in the order the lines are written, for every
\* interleaving of joinSession, chatMessage and sendTranscription events of the
\* sockets of the session
C27_SequenceNumbers ==
  \A j, k \in 1..Len(transcripts) :
    j < k /\ transcripts[j].sessionId = transcripts[k].sessionId =>
      transcripts[j].sequenceNumber < transcripts[k].sequenceNumber


\* ------------------------------------------------------------------------ C28
\* the step is a write to section k of draft id, by a tool call or by a manual edit
WritesTo(id, k) ==
  \/ \E t \in DOMAIN turns :
       /\ AgentTool(t) /\ IsPrdWrite(CurrentCall(t))
       /\ turns[t].prd.id = id /\ ParseArgs(CurrentCall(t).args)["sectionKey"] = k
  \/ \E p \in DOMAIN patches :
       PatchUpdate(p) /\ patches[p].draft.id = id /\ patches[p].sectionKey = k

\* C28: a section value written to the draft, by an agent tool call or by a manual
\* edit, is only ever replaced by a later write to that same section: in every
\* interleaving of turns and manual edits on one case a write to another section
\* never reverts it
C28_NoLostUpdate ==
  [][\A id \in DOMAIN prdVersions : \A k \in PrdKeys :
       prdVersions'[id].sections[k] # prdVersions[id].sections[k] => WritesTo(id, k)]_vars


\* ------------------------------------------------------------------------ C29
Broadcast(t, event) == t \in DOMAIN turns /\ event \in Range(turns[t].out)

\* C29: whenever a turn of an interview session has persisted a section update to
\* the draft, the prdUpdated notification of that turn is eventually broadcast to
\* the room, whatever the outcome of the later iterations of the turn
C29_UpdateNotified ==
  \A t \in 1..MaxLoopTurns :
    [](t \in DOMAIN turns /\ turns[t].kind = "interview" /\ turns[t].applied # {}
         => <>Broadcast(t, "prd_updated"))


\* ------------------------------------------------------------------------ C30
\* C30: in the events of a turn the typing(true) event comes before the first stream
\* chunk and is followed by exactly one typing(false), which comes before the final
\* message on the success path and before the error event on the failure path; no
\* turn ends with the indicator left on
C30_TypingProtocol ==
  \A t \in DOMAIN turns :
    LET out == turns[t].out
        on == Positions(out, "typing_on")
        off == Positions(out, "typing_off")
    IN /\ Cardinality(on) <= 1 /\ Cardinality(off) <= 1
       /\ \A n \in Positions(out, "stream") : \E m \in on : m < n
       /\ \A n \in off : \E m \in on : m < n
       /\ \A n \in Positions(out, "message") \cup Positions(out, "error") :
            on # {} => \E m \in off : m < n
       /\ ~InFlight(t) /\ on # {} => Cardinality(off) = 1

====
